---- MODULE Spec2Model ----
(***************************************************************************)
(* Chunk streaming pipeline of VoxelEngineBevy: the ChunkLoader systems    *)
(* (chunk_loading.rs), the World scheduler systems (world.rs) and the      *)
(* coordinate helpers they use (positions.rs, constants.rs).               *)
(*                                                                         *)
(* A chunk coordinate (ChunkPos) is a 3-tuple of integers.  One tick runs  *)
(* the PreUpdate systems of ChunkLoaderPlugin, the Update systems of       *)
(* WorldPlugin, the observer's transform update and the PostUpdate systems *)
(* of WorldPlugin.                                                         *)
(***************************************************************************)
EXTENDS Integers, Sequences, FiniteSets, TLC

VARIABLES
    translation,        \* GlobalTransform.translation() of the loader entity
    prev_chunk_pos,     \* ChunkLoader.prev_chunk_pos
    data_load_queue,    \* ChunkLoader.data_load_queue   (Vec)
    mesh_load_queue,    \* ChunkLoader.mesh_load_queue   (Vec)
    data_unload_queue,  \* ChunkLoader.data_unload_queue (VecDeque)
    mesh_unload_queue,  \* ChunkLoader.mesh_unload_queue (VecDeque)
    chunks,             \* World.chunks: the keys of the map
    load_data_queue,    \* World.load_data_queue
    load_mesh_queue,    \* World.load_mesh_queue
    unload_data_queue,  \* World.unload_data_queue
    unload_mesh_queue,  \* World.unload_mesh_queue
    data_tasks,         \* World.data_tasks: the keys of the map
    mesh_tasks,         \* World.mesh_tasks: Vec of coordinates, one per job
    chunk_entities,     \* World.chunk_entities: coordinate -> entity id
    entities,           \* the chunk entities alive in the ECS world (ids)
    pre_order,          \* the order in which the schedule runs the PreUpdate systems
    pc,                 \* position in the tick (index into Schedule)
    panicked,           \* TRUE once a system has panicked (unwrap on None)
    moves,              \* how many times the observer has changed position
    detected,           \* history: the chunk coordinate the latest detect_move saw
    last,               \* the system that ran last, with what it saw
    fn_pc, fn_in, fn_i, fn_out   \* the pure functions under test, one call at a time

loader_vars == <<prev_chunk_pos, data_load_queue, mesh_load_queue,
                 data_unload_queue, mesh_unload_queue>>
world_vars  == <<chunks, load_data_queue, load_mesh_queue, unload_data_queue,
                 unload_mesh_queue, data_tasks, mesh_tasks, chunk_entities,
                 entities>>
fn_vars     == <<fn_pc, fn_in, fn_i, fn_out>>
sched_vars  == <<translation, pre_order, pc, panicked, moves, detected, last>>
vars        == <<loader_vars, world_vars, sched_vars, fn_vars>>

---------------------------------------------------------------------------
(* Program constants and the bounds of the model.                          *)

CHUNK_SIZE == 32
CHUNKS_FROM_MIDDLE_SIZE == 3
MAX_CHUNK_LOADS == 26000

\* The program sets CHUNK_LOAD_DISTANCE = 12 and MAX_DATA_TASKS =
\* MAX_MESH_TASKS = 64.  The model runs the same code with a loader built by
\* ChunkLoader::new(LoadDistance) and with task caps small enough to bind
\* inside the modelled universe of chunks.
LoadDistance == 0
MAX_DATA_TASKS == 16
MAX_MESH_TASKS == 2

\* The observer changes position at most MaxMoves times.
MaxMoves == 3

---------------------------------------------------------------------------
(* ChunkPos arithmetic (positions.rs).                                     *)

ChunkPos_new(x, y, z) == <<x, y, z>>
ChunkPos_splat(v) == <<v, v, v>>
ChunkPos_add(a, b) == <<a[1] + b[1], a[2] + b[2], a[3] + b[3]>>
ChunkPos_sub(a, b) == <<a[1] - b[1], a[2] - b[2], a[3] - b[3]>>

distance_squared(a, b) ==
    (a[1] - b[1]) * (a[1] - b[1]) + (a[2] - b[2]) * (a[2] - b[2])
        + (a[3] - b[3]) * (a[3] - b[3])

\* Rust's integer division and `as i32` of a float both truncate toward zero.
TruncDiv(a, b) == IF a >= 0 THEN a \div b ELSE -((-a) \div b)
TruncRem(a, b) == a - b * TruncDiv(a, b)

index_to_chunk_pos_bounds(index, bounds) ==
    <<TruncRem(index, bounds),
      TruncRem(TruncDiv(index, bounds), bounds),
      TruncDiv(index, bounds * bounds)>>

---------------------------------------------------------------------------
(* Sequence helpers standing for the Vec operations the code uses.         *)

Range(s) == {s[i] : i \in 1..Len(s)}

Contains(s, e) == \E i \in 1..Len(s) : s[i] = e

\* Vec::drain(0..n) yields Prefix(s, n) and leaves Suffix(s, n).
Prefix(s, n) == SubSeq(s, 1, n)
Suffix(s, n) == SubSeq(s, n + 1, Len(s))

Min(a, b) == IF a <= b THEN a ELSE b
Max(a, b) == IF a >= b THEN a ELSE b

\* iter().enumerate().find(..) then remove(i): drop the first occurrence.
RemoveFirst(s, e) ==
    IF ~Contains(s, e) THEN s
    ELSE LET i == CHOOSE k \in 1..Len(s) :
                      s[k] = e /\ \A j \in 1..(k - 1) : s[j] # e
         IN  SubSeq(s, 1, i - 1) \o SubSeq(s, i + 1, Len(s))

\* The removal loop left out.
RemoveNone(s, es) == s

\* for pos in es.iter() { find pos in s, remove it }
RECURSIVE RemoveEach(_, _)
RemoveEach(s, es) ==
    IF es = <<>> THEN s ELSE RemoveEach(RemoveFirst(s, Head(es)), Tail(es))

\* A retain that removes nothing.
RetainAll(s, other) == s

\* Vec::retain(|pos| !other.contains(pos))
RetainNotIn(s, other) == SelectSeq(s, LAMBDA e : ~Contains(other, e))

RECURSIVE SortedKeys(_)
SortedKeys(K) ==
    IF K = {} THEN <<>>
    ELSE LET m == CHOOSE k \in K : \A j \in K : k <= j
         IN  <<m>> \o SortedKeys(K \ {m})

RECURSIVE ConcatByKey(_, _, _)
ConcatByKey(s, ref, ks) ==
    IF ks = <<>> THEN <<>>
    ELSE SelectSeq(s, LAMBDA e : distance_squared(e, ref) = Head(ks))
             \o ConcatByKey(s, ref, Tail(ks))

\* The queue left in the order it had.
left_unsorted(s, ref) == s

\* sort_by(|l, r| l.distance_squared(ref).cmp(&r.distance_squared(ref))):
\* a stable sort, elements at the same distance keep their order.
sort_by_distance(s, ref) ==
    ConcatByKey(s, ref, SortedKeys({distance_squared(s[i], ref) : i \in 1..Len(s)}))

---------------------------------------------------------------------------
(* ChunkLoader::new and make_spherical_offsets (chunk_loading.rs).         *)

ORIGIN == ChunkPos_new(0, 0, 0)

\* The offset without the shift that centres the cube on the origin.
spherical_offset_uncentred(i, r) == index_to_chunk_pos_bounds(i, r)

\* The body of the loop of make_spherical_offsets for index i and side r.
spherical_offset(i, r) ==
    ChunkPos_sub(index_to_chunk_pos_bounds(i, r), ChunkPos_splat(TruncDiv(r, 2)))

make_spherical_offsets(radius) ==
    LET r == (radius * 2) + 1
        sampling_offsets == [k \in 1..(r * r * r) |-> spherical_offset(k - 1, r)]
    IN  sort_by_distance(sampling_offsets, ORIGIN)

data_sampling_offsets == make_spherical_offsets(LoadDistance + 1)
mesh_sampling_offsets == make_spherical_offsets(LoadDistance)

INITIAL_PREV_CHUNK_POS == ChunkPos_new(999, 999, 999)

ADJACENT_CHUNK_DIRECTIONS == <<
    <<0, 0, 0>>,   <<0, -1, -1>>, <<-1, 0, -1>>, <<-1, 0, 1>>,  <<-1, -1, 0>>,
    <<-1, -1, -1>>, <<-1, 1, -1>>, <<-1, -1, 1>>, <<-1, 1, 1>>, <<1, 0, -1>>,
    <<1, -1, -1>>, <<0, 1, -1>>,  <<1, 1, 1>>,   <<1, -1, 1>>,  <<1, 1, -1>>,
    <<1, 1, 0>>,   <<0, 1, 1>>,   <<1, -1, 0>>,  <<0, -1, 1>>,  <<1, 0, 1>>,
    <<-1, 1, 0>>,
    <<-1, 0, 0>>,  <<1, 0, 0>>,   <<0, -1, 0>>,  <<0, 1, 0>>,   <<0, 0, -1>>,
    <<0, 0, 1>> >>

\* ChunkPos::from_vec3((translation - CHUNK_SIZE / 2) / CHUNK_SIZE): the
\* observer's position, in whole world units, cast with `as i32`.
observer_chunk_pos(t) ==
    <<TruncDiv(t[1] - CHUNK_SIZE \div 2, CHUNK_SIZE),
      TruncDiv(t[2] - CHUNK_SIZE \div 2, CHUNK_SIZE),
      TruncDiv(t[3] - CHUNK_SIZE \div 2, CHUNK_SIZE)>>

\* sampled(pos) = { pos + offset : offset in offsets }, collected in a HashSet.
sampled(offsets, pos) == {ChunkPos_add(pos, offsets[i]) : i \in 1..Len(offsets)}

---------------------------------------------------------------------------
(* Iteration order of a HashSet: unspecified.  The model lets every extend *)
(* of a queue from a set difference take one of the orders of HashOrders.  *)

LexLess(a, b) ==
    \/ a[1] < b[1]
    \/ a[1] = b[1] /\ a[2] < b[2]
    \/ a[1] = b[1] /\ a[2] = b[2] /\ a[3] < b[3]

RECURSIVE SetToSeqAsc(_)
SetToSeqAsc(S) ==
    IF S = {} THEN <<>>
    ELSE LET m == CHOOSE e \in S : \A f \in S : f = e \/ LexLess(e, f)
         IN  <<m>> \o SetToSeqAsc(S \ {m})

Reverse(s) == [i \in 1..Len(s) |-> s[Len(s) + 1 - i]]

HashOrders == {"asc", "desc"}

hash_iter(S, ord) == IF ord = "asc" THEN SetToSeqAsc(S) ELSE Reverse(SetToSeqAsc(S))

---------------------------------------------------------------------------
(* The schedule of one tick (ChunkLoaderPlugin::build, WorldPlugin::build). *)

LISTED_PRE_UPDATE ==
    <<"detect_move", "load_chunks", "unload_chunks", "load_mesh", "unload_mesh">>

PreUpdateOrders == {LISTED_PRE_UPDATE}

\* PostUpdate put before Update.
Schedule_starting_tasks_first ==
    pre_order \o <<"start_data_tasks", "start_mesh_tasks", "join_data", "join_mesh",
                   "unload_data", "world_unload_mesh", "player_move">>

Schedule ==
    pre_order \o <<"join_data", "join_mesh", "unload_data", "world_unload_mesh",
                   "player_move", "start_data_tasks", "start_mesh_tasks">>

Running(sys) == ~panicked /\ Schedule[pc] = sys

NextPc == IF pc = Len(Schedule) THEN 1 ELSE pc + 1

\* The systems that have run so far in the current tick.
ran_this_tick == SubSeq(Schedule, 1, pc - 1)

\* What is recorded of the system that ran last: for detect_move, whether the
\* chunk coordinate had changed, whether the four loader queues were empty when
\* it ran, how many entries its retain removed from the load queues (n) and
\* how many it removed from world.load_data_queue and world.load_mesh_queue (m); for
\* load_chunks and load_mesh, how many coordinates they accepted
\* and how many they dropped (load_chunks) or retried (load_mesh); for
\* start_mesh_tasks, how many jobs it spawned and how many coordinates it left
\* in world.load_mesh_queue.
Ran(sys, changed, empty, n, m) ==
    [sys |-> sys, changed |-> changed, empty |-> empty, n |-> n, m |-> m]

StepN(sys, n, m) ==
    /\ pc' = NextPc
    /\ last' = Ran(sys, FALSE, FALSE, n, m)
    /\ UNCHANGED <<translation, pre_order, panicked, moves, detected, fn_vars>>

Step(sys) == StepN(sys, 0, 0)

---------------------------------------------------------------------------
(* ChunkLoader systems (chunk_loading.rs).                                 *)

chunk_pos_has_changed(chunk_pos, prev) == chunk_pos # prev

\* prev_chunk_pos left as it was.
stale_prev_chunk_pos(chunk_pos, prev) == prev

\* loader.prev_chunk_pos = chunk_pos
updated_prev_chunk_pos(chunk_pos, prev) == chunk_pos

\* The whole area instead of the difference.
no_difference(area, other) == area

\* HashSet::difference
difference(area, other) == area \ other

\* The queues after the body of detect_move for a changed chunk_pos.
detect_move_queues(chunk_pos, prev, ord) ==
    LET load_data_area   == sampled(data_sampling_offsets, chunk_pos)
        unload_data_area == sampled(data_sampling_offsets, prev)
        load_mesh_area   == sampled(mesh_sampling_offsets, chunk_pos)
        unload_mesh_area == sampled(mesh_sampling_offsets, prev)
        dl == data_load_queue \o hash_iter(difference(load_data_area, unload_data_area), ord)
        du == data_unload_queue \o hash_iter(difference(unload_data_area, load_data_area), ord)
        ml == mesh_load_queue \o hash_iter(difference(load_mesh_area, unload_mesh_area), ord)
        mu == mesh_unload_queue \o hash_iter(difference(unload_mesh_area, load_mesh_area), ord)
    IN  [ data_load   |-> sort_by_distance(RetainNotIn(dl, du), chunk_pos),
          mesh_load   |-> sort_by_distance(RetainNotIn(ml, mu), chunk_pos),
          data_unload |-> du,
          mesh_unload |-> mu,
          retained_out |-> (Len(dl) - Len(RetainNotIn(dl, du)))
                               + (Len(ml) - Len(RetainNotIn(ml, mu))),
          world_load_data |-> RemoveEach(load_data_queue, du),
          world_load_mesh |-> RemoveEach(load_mesh_queue, mu),
          cancelled |-> (Len(load_data_queue) - Len(RemoveEach(load_data_queue, du)))
                            + (Len(load_mesh_queue) - Len(RemoveEach(load_mesh_queue, mu))) ]

detect_move ==
    /\ Running("detect_move")
    /\ LET chunk_pos == observer_chunk_pos(translation)
           prev      == prev_chunk_pos
       IN  IF ~chunk_pos_has_changed(chunk_pos, prev)
           THEN /\ UNCHANGED <<loader_vars, world_vars>>
                /\ last' = Ran("detect_move", FALSE, FALSE, 0, 0)
           ELSE \E ord \in HashOrders :
                  LET q == detect_move_queues(chunk_pos, prev, ord)
                  IN  /\ prev_chunk_pos' = updated_prev_chunk_pos(chunk_pos, prev)
                      /\ data_load_queue' = q.data_load
                      /\ mesh_load_queue' = q.mesh_load
                      /\ data_unload_queue' = q.data_unload
                      /\ mesh_unload_queue' = q.mesh_unload
                      /\ load_data_queue' = q.world_load_data
                      /\ load_mesh_queue' = q.world_load_mesh
                      /\ UNCHANGED <<chunks, unload_data_queue, unload_mesh_queue,
                                     data_tasks, mesh_tasks, chunk_entities,
                                     entities>>
                      /\ last' = Ran("detect_move", TRUE,
                                     /\ data_load_queue = <<>>
                                     /\ mesh_load_queue = <<>>
                                     /\ data_unload_queue = <<>>
                                     /\ mesh_unload_queue = <<>>,
                                     q.retained_out, q.cancelled)
    /\ detected' = observer_chunk_pos(translation)
    /\ pc' = NextPc
    /\ UNCHANGED <<translation, pre_order, panicked, moves, fn_vars>>

\* is_busy without the look at the jobs in flight.
data_is_busy_ignoring_tasks(chunk_pos, lq) ==
    chunk_pos \in chunks \/ Contains(lq, chunk_pos)

\* is_busy of load_chunks for chunk_pos, lq being world.load_data_queue.
data_is_busy(chunk_pos, lq) ==
    \/ chunk_pos \in chunks
    \/ Contains(lq, chunk_pos)
    \/ chunk_pos \in data_tasks

\* The loop of load_chunks over the drained coordinates: lq and uq are
\* world.load_data_queue and world.unload_data_queue.
RECURSIVE load_chunks_loop(_, _, _)
load_chunks_loop(drained, lq, uq) ==
    IF drained = <<>> THEN [load |-> lq, unload |-> uq]
    ELSE LET chunk_pos == Head(drained)
         IN  IF ~data_is_busy(chunk_pos, lq)
             THEN load_chunks_loop(Tail(drained), Append(lq, chunk_pos),
                                   RemoveFirst(uq, chunk_pos))
             ELSE load_chunks_loop(Tail(drained), lq, uq)

load_chunks ==
    /\ Running("load_chunks")
    /\ IF Cardinality(data_tasks) >= MAX_DATA_TASKS
       THEN UNCHANGED <<loader_vars, world_vars>> /\ Step("load_chunks")
       ELSE LET n == Min(MAX_CHUNK_LOADS, Len(data_load_queue))
                r == load_chunks_loop(Prefix(data_load_queue, n),
                                      load_data_queue, unload_data_queue)
            IN  /\ data_load_queue' = Suffix(data_load_queue, n)
                /\ load_data_queue' = r.load
                /\ unload_data_queue' = r.unload
                /\ UNCHANGED <<prev_chunk_pos, mesh_load_queue, data_unload_queue,
                               mesh_unload_queue, chunks, load_mesh_queue,
                               unload_mesh_queue, data_tasks, mesh_tasks,
                               chunk_entities, entities>>
                /\ StepN("load_chunks", Len(r.load) - Len(load_data_queue),
                         n - (Len(r.load) - Len(load_data_queue)))

\* An unload that skips the look at the store.
unload_is_busy_never(chunk_pos) == FALSE

\* is_busy of unload_chunks: the chunk is not resident.
unload_is_busy(chunk_pos) == chunk_pos \notin chunks

unload_chunks ==
    /\ Running("unload_chunks")
    /\ unload_data_queue' =
           unload_data_queue
               \o SelectSeq(data_unload_queue, LAMBDA c : ~unload_is_busy(c))
    /\ data_unload_queue' = <<>>
    /\ UNCHANGED <<prev_chunk_pos, data_load_queue, mesh_load_queue,
                   mesh_unload_queue, chunks, load_data_queue, load_mesh_queue,
                   unload_mesh_queue, data_tasks, mesh_tasks, chunk_entities,
                   entities>>
    /\ Step("unload_chunks")

\* Only the chunk itself and its six face neighbours.
faces_resident(chunk_pos) ==
    \A i \in {1} \cup (22..27) :
        ChunkPos_add(chunk_pos, ADJACENT_CHUNK_DIRECTIONS[i]) \in chunks

\* ADJACENT_CHUNK_DIRECTIONS.iter().map(|o| chunk_pos + o).all(|p| chunks.contains_key(&p))
all_adjacent_resident(chunk_pos) ==
    \A i \in 1..Len(ADJACENT_CHUNK_DIRECTIONS) :
        ChunkPos_add(chunk_pos, ADJACENT_CHUNK_DIRECTIONS[i]) \in chunks

\* is_busy of load_mesh for chunk_pos, lq being world.load_mesh_queue.
mesh_is_busy(chunk_pos, lq) ==
    Contains(lq, chunk_pos) \/ ~all_adjacent_resident(chunk_pos)

\* The loop of load_mesh over the drained coordinates: lq and uq are
\* world.load_mesh_queue and world.unload_mesh_queue.
RECURSIVE load_mesh_loop(_, _, _, _)
load_mesh_loop(drained, lq, uq, retries) ==
    IF drained = <<>> THEN [load |-> lq, unload |-> uq, retries |-> retries]
    ELSE LET chunk_pos == Head(drained)
         IN  IF ~mesh_is_busy(chunk_pos, lq)
             THEN load_mesh_loop(Tail(drained), Append(lq, chunk_pos),
                                 RemoveFirst(uq, chunk_pos), retries)
             ELSE load_mesh_loop(Tail(drained), lq, uq, Append(retries, chunk_pos))

\* The retries forgotten.
drop_retries(rest, retries) == rest

\* loader.mesh_load_queue.append(&mut retries)
requeue_retries(rest, retries) == rest \o retries

load_mesh ==
    /\ Running("load_mesh")
    /\ LET n == Min(MAX_CHUNK_LOADS, Len(mesh_load_queue))
           r == load_mesh_loop(Prefix(mesh_load_queue, n), load_mesh_queue,
                               unload_mesh_queue, <<>>)
       IN  /\ mesh_load_queue' = requeue_retries(Suffix(mesh_load_queue, n), r.retries)
           /\ load_mesh_queue' = r.load
           /\ unload_mesh_queue' = r.unload
           /\ StepN("load_mesh", Len(r.load) - Len(load_mesh_queue), Len(r.retries))
    /\ UNCHANGED <<prev_chunk_pos, data_load_queue, data_unload_queue,
                   mesh_unload_queue, chunks, load_data_queue, unload_data_queue,
                   data_tasks, mesh_tasks, chunk_entities, entities>>

unload_mesh ==
    /\ Running("unload_mesh")
    /\ unload_mesh_queue' = unload_mesh_queue \o mesh_unload_queue
    /\ mesh_unload_queue' = <<>>
    /\ UNCHANGED <<prev_chunk_pos, data_load_queue, mesh_load_queue,
                   data_unload_queue, chunks, load_data_queue, load_mesh_queue,
                   unload_data_queue, data_tasks, mesh_tasks, chunk_entities,
                   entities>>
    /\ Step("unload_mesh")

---------------------------------------------------------------------------
(* World systems (world.rs).                                               *)

\* HashMap insert and remove on chunk_entities.
map_insert(m, k, v) == [c \in (DOMAIN m) \cup {k} |-> IF c = k THEN v ELSE m[c]]
map_remove(m, k) == [c \in (DOMAIN m) \ {k} |-> m[c]]

\* The id of a newly spawned entity: the first one not alive.
spawn_id(alive) == CHOOSE e \in 0..Cardinality(alive) :
                       e \notin alive /\ \A f \in 0..(e - 1) : f \in alive

\* The position left in world units, the division forgotten.
task_loader_pos_in_world_units(t) ==
    <<t[1] - CHUNK_SIZE \div 2, t[2] - CHUNK_SIZE \div 2, t[3] - CHUNK_SIZE \div 2>>

\* ChunkPos::from_vec3(translation - CHUNK_SIZE / 2) / 32
task_loader_pos(t) ==
    <<TruncDiv(t[1] - CHUNK_SIZE \div 2, 32),
      TruncDiv(t[2] - CHUNK_SIZE \div 2, 32),
      TruncDiv(t[3] - CHUNK_SIZE \div 2, 32)>>

\* The cap applied to the queue alone, not to the jobs in flight.
tasks_left_ignoring_in_flight(max_tasks, in_flight, queue_len) ==
    Max(Min(max_tasks, queue_len), 0)

\* (MAX as i32 - in_flight as i32).min(queue_len as i32).max(0) as usize
tasks_left(max_tasks, in_flight, queue_len) ==
    Max(Min(max_tasks - in_flight, queue_len), 0)

start_data_tasks ==
    /\ Running("start_data_tasks")
    /\ LET sorted == sort_by_distance(load_data_queue, task_loader_pos(translation))
           n == tasks_left(MAX_DATA_TASKS, Cardinality(data_tasks), Len(sorted))
       IN  /\ load_data_queue' = Suffix(sorted, n)
           /\ data_tasks' = data_tasks \cup Range(Prefix(sorted, n))
    /\ UNCHANGED <<loader_vars, chunks, load_mesh_queue, unload_data_queue,
                   unload_mesh_queue, mesh_tasks, chunk_entities, entities>>
    /\ Step("start_data_tasks")

\* An unload that takes one coordinate from the queue where the code drains it.
unload_data_one_per_tick ==
    /\ Running("unload_data")
    /\ LET n == Min(1, Len(unload_data_queue))
       IN  /\ chunks' = chunks \ Range(Prefix(unload_data_queue, n))
           /\ unload_data_queue' = Suffix(unload_data_queue, n)
    /\ UNCHANGED <<loader_vars, load_data_queue, load_mesh_queue,
                   unload_mesh_queue, data_tasks, mesh_tasks, chunk_entities,
                   entities>>
    /\ StepN("unload_data", Cardinality(chunks \ chunks'), 0)

\* last.n is the number of chunks removed from the store.
unload_data ==
    /\ Running("unload_data")
    /\ chunks' = chunks \ Range(unload_data_queue)
    /\ unload_data_queue' = <<>>
    /\ UNCHANGED <<loader_vars, load_data_queue, load_mesh_queue,
                   unload_mesh_queue, data_tasks, mesh_tasks, chunk_entities,
                   entities>>
    /\ StepN("unload_data", Cardinality(chunks \ chunks'), 0)

\* ChunksFromMiddle::try_new(chunks, middle_chunk): the 27 lookups are
\* unwrapped, so an absent chunk panics; otherwise Some.
try_new(store, middle_chunk) ==
    LET size == CHUNKS_FROM_MIDDLE_SIZE
    IN  IF \A index \in 0..(size * size * size - 1) :
               ChunkPos_add(middle_chunk,
                            ChunkPos_add(index_to_chunk_pos_bounds(index, size),
                                         ChunkPos_splat(-1))) \in store
        THEN "some" ELSE "panic"

\* mesh_tasks.push((chunk_pos, Some(task)))
push_mesh_task(tasks, chunk_pos) == Append(tasks, chunk_pos)

RECURSIVE start_mesh_loop(_, _)
start_mesh_loop(drained, tasks) ==
    IF drained = <<>> THEN tasks
    ELSE start_mesh_loop(Tail(drained), push_mesh_task(tasks, Head(drained)))

start_mesh_tasks ==
    /\ Running("start_mesh_tasks")
    /\ LET sorted == sort_by_distance(load_mesh_queue, task_loader_pos(translation))
           n == tasks_left(MAX_MESH_TASKS, Len(mesh_tasks), Len(sorted))
           drained == Prefix(sorted, n)
       IN  IF \E i \in 1..n : try_new(chunks, drained[i]) = "panic"
           THEN /\ panicked' = TRUE
                /\ UNCHANGED <<load_mesh_queue, mesh_tasks>>
           ELSE /\ panicked' = FALSE
                /\ load_mesh_queue' = Suffix(sorted, n)
                /\ mesh_tasks' = start_mesh_loop(drained, mesh_tasks)
    /\ UNCHANGED <<loader_vars, chunks, load_data_queue, unload_data_queue,
                   unload_mesh_queue, data_tasks, chunk_entities, entities>>
    /\ pc' = NextPc
    /\ last' = Ran("start_mesh_tasks", FALSE, FALSE,
                   Len(mesh_tasks') - Len(mesh_tasks), Len(load_mesh_queue'))
    /\ UNCHANGED <<translation, pre_order, moves, detected, fn_vars>>

RECURSIVE world_unload_mesh_loop(_, _, _)
world_unload_mesh_loop(queue, ce, alive) ==
    IF queue = <<>> THEN [chunk_entities |-> ce, entities |-> alive]
    ELSE LET chunk_pos == Head(queue)
         IN  IF chunk_pos \in DOMAIN ce
             THEN world_unload_mesh_loop(Tail(queue), map_remove(ce, chunk_pos),
                                         alive \ {ce[chunk_pos]})
             ELSE world_unload_mesh_loop(Tail(queue), ce, alive)

\* The coordinates of the queue with no entity recorded when they are reached.
RECURSIVE without_entity(_, _)
without_entity(queue, ce) ==
    IF queue = <<>> THEN <<>>
    ELSE IF Head(queue) \in DOMAIN ce
         THEN without_entity(Tail(queue), map_remove(ce, Head(queue)))
         ELSE <<Head(queue)>> \o without_entity(Tail(queue), ce)

\* An unload that pushes the coordinates with no entity onto `retry`.
world_unload_mesh_retrying ==
    /\ Running("world_unload_mesh")
    /\ LET r == world_unload_mesh_loop(unload_mesh_queue, chunk_entities, entities)
       IN  /\ chunk_entities' = r.chunk_entities
           /\ entities' = r.entities
    /\ unload_mesh_queue' = without_entity(unload_mesh_queue, chunk_entities)
    /\ UNCHANGED <<loader_vars, chunks, load_data_queue, load_mesh_queue,
                   unload_data_queue, data_tasks, mesh_tasks>>
    /\ StepN("world_unload_mesh", Cardinality(entities \ entities'),
             Len(without_entity(unload_mesh_queue, chunk_entities)))

\* last.n is the number of entities despawned, last.m the number of queued
\* coordinates that had no entity; `retry` is never pushed to.
world_unload_mesh ==
    /\ Running("world_unload_mesh")
    /\ LET r == world_unload_mesh_loop(unload_mesh_queue, chunk_entities, entities)
       IN  /\ chunk_entities' = r.chunk_entities
           /\ entities' = r.entities
    /\ unload_mesh_queue' = <<>>
    /\ UNCHANGED <<loader_vars, chunks, load_data_queue, load_mesh_queue,
                   unload_data_queue, data_tasks, mesh_tasks>>
    /\ StepN("world_unload_mesh", Cardinality(entities \ entities'),
             Len(without_entity(unload_mesh_queue, chunk_entities)))

\* The sets of data jobs a tick may find finished: none of them, all of them,
\* or those of the coordinates with an even sum.
finished_sets(tasks) ==
    {{}, tasks, {c \in tasks : (c[1] + c[2] + c[3]) % 2 = 0}}

\* A join that takes every job out of its slot and puts none back.
join_data_dropping_unfinished ==
    /\ Running("join_data")
    /\ \E done \in finished_sets(data_tasks) :
          /\ chunks' = chunks \cup done
          /\ data_tasks' = {}
          /\ StepN("join_data", Cardinality(done), 0)
    /\ UNCHANGED <<loader_vars, load_data_queue, load_mesh_queue,
                   unload_data_queue, unload_mesh_queue, mesh_tasks,
                   chunk_entities, entities>>

\* A join that keeps a finished chunk only while the loader still samples it.
join_data_within_radius ==
    /\ Running("join_data")
    /\ \E done \in finished_sets(data_tasks) :
          /\ chunks' = chunks \cup
                 (done \cap sampled(data_sampling_offsets, prev_chunk_pos))
          /\ data_tasks' = data_tasks \ done
          /\ StepN("join_data", Cardinality(done), 0)
    /\ UNCHANGED <<loader_vars, load_data_queue, load_mesh_queue,
                   unload_data_queue, unload_mesh_queue, mesh_tasks,
                   chunk_entities, entities>>

\* poll_once on every data job: the jobs in `done` have finished; last.n is
\* how many.
join_data ==
    /\ Running("join_data")
    /\ \E done \in finished_sets(data_tasks) :
          /\ chunks' = chunks \cup done
          /\ data_tasks' = data_tasks \ done
          /\ StepN("join_data", Cardinality(done), 0)
    /\ UNCHANGED <<loader_vars, load_data_queue, load_mesh_queue,
                   unload_data_queue, unload_mesh_queue, mesh_tasks,
                   chunk_entities, entities>>

\* What poll_once gives for a mesh job: not finished, finished with no mesh,
\* finished with a mesh.
MeshPolls == {"pending", "none", "mesh"}

\* The entity recorded for the coordinate left alive.
despawn_skipped(ce, alive, chunk_pos) == alive

\* if let Some(entity) = chunk_entities.get(chunk_pos) { despawn }
despawn_existing(ce, alive, chunk_pos) ==
    IF chunk_pos \in DOMAIN ce THEN alive \ {ce[chunk_pos]} ELSE alive

\* The loop of join_mesh: polls[i] is the outcome of the poll of tasks[i].
RECURSIVE join_mesh_loop(_, _, _, _, _)
join_mesh_loop(tasks, polls, kept, ce, alive) ==
    IF tasks = <<>> THEN [mesh_tasks |-> kept, chunk_entities |-> ce, entities |-> alive]
    ELSE LET chunk_pos == Head(tasks)
             poll == Head(polls)
         IN  IF poll = "pending"
             THEN join_mesh_loop(Tail(tasks), Tail(polls), Append(kept, chunk_pos),
                                 ce, alive)
             ELSE IF poll = "none"
             THEN join_mesh_loop(Tail(tasks), Tail(polls), kept, ce, alive)
             ELSE LET despawned == despawn_existing(ce, alive, chunk_pos)
                      chunk_entity == spawn_id(despawned)
                  IN  join_mesh_loop(Tail(tasks), Tail(polls), kept,
                                     map_insert(ce, chunk_pos, chunk_entity),
                                     despawned \cup {chunk_entity})

\* What is recorded of a join_mesh: the coordinates of the jobs found finished
\* with no mesh, of those found finished with a mesh, and of those found
\* finished with a mesh that had an entity recorded already.
polled(tasks, polls) ==
    [none |-> {tasks[i] : i \in {j \in 1..Len(tasks) : polls[j] = "none"}},
     meshed |-> {tasks[i] : i \in {j \in 1..Len(tasks) : polls[j] = "mesh"}},
     replaced |-> {tasks[i] : i \in {j \in 1..Len(tasks) :
                       polls[j] = "mesh" /\ tasks[j] \in DOMAIN chunk_entities}}]

join_mesh ==
    /\ Running("join_mesh")
    /\ \E polls \in [1..Len(mesh_tasks) -> MeshPolls] :
          LET r == join_mesh_loop(mesh_tasks, polls, <<>>, chunk_entities, entities)
          IN  /\ mesh_tasks' = r.mesh_tasks
              /\ chunk_entities' = r.chunk_entities
              /\ entities' = r.entities
              /\ last' = polled(mesh_tasks, polls) @@ Ran("join_mesh", FALSE, FALSE, 0, 0)
    /\ pc' = NextPc
    /\ UNCHANGED <<loader_vars, chunks, load_data_queue, load_mesh_queue,
                   unload_data_queue, unload_mesh_queue, data_tasks>>
    /\ UNCHANGED <<translation, pre_order, panicked, moves, detected, fn_vars>>

---------------------------------------------------------------------------
(* The observer.                                                           *)

START_TRANSLATION == <<9, 9, 9>>

\* The positions the observer takes: chunk coordinates (0,0,0) and (1,0,0).
Translations == {START_TRANSLATION, <<50, 9, 9>>}

player_move ==
    /\ Running("player_move")
    /\ \E t \in Translations :
          /\ t # translation => moves < MaxMoves
          /\ translation' = t
          /\ moves' = IF t # translation THEN moves + 1 ELSE moves
    /\ pc' = NextPc
    /\ last' = Ran("player_move", FALSE, FALSE, 0, 0)
    /\ UNCHANGED <<loader_vars, world_vars, pre_order, panicked, detected, fn_vars>>

---------------------------------------------------------------------------
(* The streaming pipeline.                                                 *)

FnIdle ==
    /\ fn_pc = "idle"
    /\ fn_in = 0
    /\ fn_i = 0
    /\ fn_out = <<>>

PipelineInit ==
    /\ translation = START_TRANSLATION
    /\ prev_chunk_pos = INITIAL_PREV_CHUNK_POS
    /\ data_load_queue = <<>>
    /\ mesh_load_queue = <<>>
    /\ data_unload_queue = <<>>
    /\ mesh_unload_queue = <<>>
    /\ chunks = {}
    /\ load_data_queue = <<>>
    /\ load_mesh_queue = <<>>
    /\ unload_data_queue = <<>>
    /\ unload_mesh_queue = <<>>
    /\ data_tasks = {}
    /\ mesh_tasks = <<>>
    /\ chunk_entities = <<>>
    /\ entities = {}
    /\ pre_order \in PreUpdateOrders
    /\ pc = 1
    /\ panicked = FALSE
    /\ moves = 0
    /\ detected = INITIAL_PREV_CHUNK_POS
    /\ last = Ran("setup", FALSE, FALSE, 0, 0)

Init == PipelineInit /\ FnIdle

Next ==
    \/ detect_move
    \/ load_chunks
    \/ unload_chunks
    \/ load_mesh
    \/ unload_mesh
    \/ join_data
    \/ join_mesh
    \/ unload_data
    \/ world_unload_mesh
    \/ player_move
    \/ start_data_tasks
    \/ start_mesh_tasks

Spec == Init /\ [][Next]_vars

---------------------------------------------------------------------------
(* The pipeline with an observer that changes position at most once, and   *)
(* with jobs that finish.  A job that is polled again and again is found   *)
(* finished by one of the polls; of that the specification assumes only    *)
(* what it implies for one job at a time: the data job of the least        *)
(* coordinate in flight, and a mesh job of the coordinate of the oldest    *)
(* mesh job.                                                               *)

player_move_once == player_move /\ moves' <= 1

NextOneMove ==
    \/ detect_move
    \/ load_chunks
    \/ unload_chunks
    \/ load_mesh
    \/ unload_mesh
    \/ join_data
    \/ join_mesh
    \/ unload_data
    \/ world_unload_mesh
    \/ player_move_once
    \/ start_data_tasks
    \/ start_mesh_tasks

least_in_flight == CHOOSE e \in data_tasks : \A f \in data_tasks : f = e \/ LexLess(e, f)

data_job_completes ==
    /\ join_data
    /\ data_tasks # {}
    /\ least_in_flight \notin data_tasks'

oldest_mesh_job_completes ==
    /\ join_mesh
    /\ mesh_tasks # <<>>
    /\ Head(mesh_tasks) \in last'.none \cup last'.meshed

JobsComplete ==
    /\ SF_vars(data_job_completes)
    /\ SF_vars(oldest_mesh_job_completes)

\* The scheduler keeps running the systems of the tick, one after the other,
\* unless a system has panicked.
system_runs == ~panicked /\ pc' = NextPc

SpecOneMove ==
    Init /\ [][NextOneMove]_vars /\ WF_pc(system_runs) /\ JobsComplete

---------------------------------------------------------------------------
(* make_spherical_offsets, one loop iteration at a time.                   *)

MaxRadius == 2

side(radius) == (radius * 2) + 1

OffsetsInit ==
    /\ PipelineInit
    /\ fn_pc = "loop"
    /\ fn_in \in 0..MaxRadius
    /\ fn_i = 0
    /\ fn_out = <<>>

\* sampling_offsets.push(chunk_pos)
offsets_push ==
    /\ fn_pc = "loop"
    /\ fn_i < side(fn_in) * side(fn_in) * side(fn_in)
    /\ fn_out' = Append(fn_out, spherical_offset(fn_i, side(fn_in)))
    /\ fn_i' = fn_i + 1
    /\ UNCHANGED <<fn_pc, fn_in, loader_vars, world_vars, sched_vars>>

\* sampling_offsets.sort_by(..), then return
offsets_sort ==
    /\ fn_pc = "loop"
    /\ fn_i = side(fn_in) * side(fn_in) * side(fn_in)
    /\ fn_out' = sort_by_distance(fn_out, ORIGIN)
    /\ fn_pc' = "done"
    /\ UNCHANGED <<fn_i, fn_in, loader_vars, world_vars, sched_vars>>

OffsetsNext == offsets_push \/ offsets_sort

SpecOffsets == OffsetsInit /\ [][OffsetsNext]_vars

---------------------------------------------------------------------------
(* f32 arithmetic.  A float is held as an integer count of UNIT-ths, which *)
(* is exact for every value the conversions below produce.                 *)

UNIT == 2 * CHUNK_SIZE
F32_MANTISSA_BITS == 24

RECURSIVE Pow2(_)
Pow2(n) == IF n = 0 THEN 1 ELSE 2 * Pow2(n - 1)

\* The number of bits of m > 0.
RECURSIVE BitLen(_)
BitLen(m) == IF m = 0 THEN 0 ELSE 1 + BitLen(m \div 2)

Abs(a) == IF a < 0 THEN -a ELSE a
Sign(a) == IF a < 0 THEN -1 ELSE 1

\* Round v to the nearest value with a 24-bit significand, ties to even: the
\* rounding of every f32 operation and of `as f32`.
f32_round(v) ==
    LET m == Abs(v)
        bits == BitLen(m)
    IN  IF bits <= F32_MANTISSA_BITS THEN v
        ELSE LET ulp == Pow2(bits - F32_MANTISSA_BITS)
                 q == m \div ulp
                 rem == m % ulp
                 up == 2 * rem > ulp \/ (2 * rem = ulp /\ q % 2 = 1)
             IN  Sign(v) * (IF up THEN q + 1 ELSE q) * ulp

i32_as_f32(n) == f32_round(n * UNIT)
f32_add(a, b) == f32_round(a + b)
\* Division by CHUNK_SIZE as f32: every dividend the conversion produces is a
\* whole number of halves, so the quotient is a whole number of UNIT-ths.
f32_div_chunk_size(a) == f32_round(a \div CHUNK_SIZE)

\* f32::round_ties_even, then `as i32`.
round_ties_even(v) ==
    LET q == v \div UNIT
        rem == v % UNIT
    IN  IF 2 * rem > UNIT \/ (2 * rem = UNIT /\ q % 2 = 1) THEN q + 1 ELSE q

---------------------------------------------------------------------------
(* WorldPos::to_voxel_pos and WorldPos::from_voxel_pos (positions.rs).     *)

\* One component of chunk_pos in to_voxel_pos.
to_voxel_pos_chunk(x) ==
    round_ties_even(
        f32_div_chunk_size(
            f32_add(i32_as_f32(x - CHUNK_SIZE \div 2), UNIT \div 2)))

\* One component of voxel_pos in to_voxel_pos.
to_voxel_pos_voxel(x) ==
    TruncRem(TruncRem(x, CHUNK_SIZE) + CHUNK_SIZE, CHUNK_SIZE)

to_voxel_pos(pos) ==
    [voxel_pos |-> <<to_voxel_pos_voxel(pos[1]), to_voxel_pos_voxel(pos[2]),
                     to_voxel_pos_voxel(pos[3])>>,
     chunk_pos |-> <<to_voxel_pos_chunk(pos[1]), to_voxel_pos_chunk(pos[2]),
                     to_voxel_pos_chunk(pos[3])>>]

from_voxel_pos(voxel_pos, chunk_pos) ==
    <<voxel_pos[1] + chunk_pos[1] * CHUNK_SIZE,
      voxel_pos[2] + chunk_pos[2] * CHUNK_SIZE,
      voxel_pos[3] + chunk_pos[3] * CHUNK_SIZE>>

\* The world coordinates tried on each axis: around the origin and the chunk
\* boundaries next to it, and around 2^23, where f32 stops holding halves.
MaxWorld == 70
F32_HALF_LIMIT == Pow2(F32_MANTISSA_BITS - 1)
WorldNear == (-MaxWorld)..MaxWorld
WorldFar == (F32_HALF_LIMIT - 2)..(F32_HALF_LIMIT + MaxWorld)
WorldAxis == WorldNear \cup WorldFar \cup {-w : w \in WorldFar}
WorldOther == {-CHUNK_SIZE, -1, 0}

VoxelPosInit ==
    /\ PipelineInit
    /\ fn_pc = "to_voxel_pos"
    /\ fn_in \in {<<x, y, z>> : x \in WorldAxis, y \in WorldOther, z \in WorldOther}
           \cup {<<y, x, z>> : x \in WorldAxis, y \in WorldOther, z \in WorldOther}
           \cup {<<y, z, x>> : x \in WorldAxis, y \in WorldOther, z \in WorldOther}
    /\ fn_i = 0
    /\ fn_out = <<>>

call_to_voxel_pos ==
    /\ fn_pc = "to_voxel_pos"
    /\ fn_out' = to_voxel_pos(fn_in)
    /\ fn_pc' = "from_voxel_pos"
    /\ UNCHANGED <<fn_i, fn_in, loader_vars, world_vars, sched_vars>>

call_from_voxel_pos ==
    /\ fn_pc = "from_voxel_pos"
    /\ fn_out' = [voxel_pos |-> fn_out.voxel_pos,
                   chunk_pos |-> fn_out.chunk_pos,
                   world_pos |-> from_voxel_pos(fn_out.voxel_pos, fn_out.chunk_pos)]
    /\ fn_pc' = "done"
    /\ UNCHANGED <<fn_i, fn_in, loader_vars, world_vars, sched_vars>>

VoxelPosNext == call_to_voxel_pos \/ call_from_voxel_pos

SpecVoxelPos == VoxelPosInit /\ [][VoxelPosNext]_vars

---------------------------------------------------------------------------
(* Vertex::to_u32 and Vertex::from_u32 (vertex.rs).                        *)

U32_BITS == 32

\* a | b on unsigned integers.
RECURSIVE BitOr(_, _)
BitOr(a, b) ==
    IF a = 0 THEN b
    ELSE IF b = 0 THEN a
    ELSE (IF a % 2 = 1 \/ b % 2 = 1 THEN 1 ELSE 0) + 2 * BitOr(a \div 2, b \div 2)

\* a << n on u32, for n > 0: the top n bits of a are shifted out and lost.
Shl(a, n) == (a % Pow2(U32_BITS - n)) * Pow2(n)

\* (word & (mask << shift)) >> shift, for a mask of `bits` ones.
masked_field(word, bits, shift) == (word \div Pow2(shift)) % Pow2(bits)

\* impl From<VoxelType> for u32, and the discriminant `as u32` gives.
VoxelTypes == {"None", "Block"}
VoxelType_as_u32(voxel_type) == IF voxel_type = "None" THEN 0 ELSE 1

\* impl From<u32> for VoxelType
VoxelType_from_u32(n) ==
    IF n = 0 THEN "None" ELSE IF n = 1 THEN "Block" ELSE "panic"

Vertex_to_u32(v) ==
    BitOr(BitOr(BitOr(BitOr(BitOr(
        v.pos[1],
        Shl(v.pos[2], 6)),
        Shl(v.pos[3], 12)),
        Shl(v.ao, 18)),
        Shl(v.normal, 21)),
        Shl(VoxelType_as_u32(v.voxel_type), 24))

Vertex_from_u32(word) ==
    [pos |-> <<masked_field(word, 6, 0),
               masked_field(word, 6, 12),
               masked_field(word, 6, 6)>>,
     ao |-> masked_field(word, 3, 18),
     normal |-> masked_field(word, 3, 21),
     voxel_type |-> VoxelType_from_u32(masked_field(word, 8, 24))]

\* The position components tried: the ends of the 6-bit field, and values
\* around CHUNK_SIZE.
VertexCoords == {0, 1, CHUNK_SIZE + 1, 2 * CHUNK_SIZE - 1}
AoValues == 0..7
NormalIndices == 0..5

VertexInit ==
    /\ PipelineInit
    /\ fn_pc = "to_u32"
    /\ fn_in \in [pos : VertexCoords \X VertexCoords \X VertexCoords,
                  ao : AoValues, normal : NormalIndices, voxel_type : VoxelTypes]
    /\ fn_i = 0
    /\ fn_out = <<>>

call_to_u32 ==
    /\ fn_pc = "to_u32"
    /\ fn_i' = Vertex_to_u32(fn_in)
    /\ fn_pc' = "from_u32"
    /\ UNCHANGED <<fn_in, fn_out, loader_vars, world_vars, sched_vars>>

call_from_u32 ==
    /\ fn_pc = "from_u32"
    /\ fn_out' = Vertex_from_u32(fn_i)
    /\ fn_pc' = "done"
    /\ UNCHANGED <<fn_in, fn_i, loader_vars, world_vars, sched_vars>>

VertexNext == call_to_u32 \/ call_from_u32

SpecVertex == VertexInit /\ [][VertexNext]_vars

---------------------------------------------------------------------------
(* Chunk and ChunksFromMiddle: the voxels the mesher reads.                *)

CHUNK_SIZE_PADDED == CHUNK_SIZE + 2
CHUNK_LEN == CHUNK_SIZE * CHUNK_SIZE * CHUNK_SIZE
AIR == "None"

\* VoxelType::is_solid
is_solid(voxel_type) == voxel_type # AIR

\* VoxelPos::to_index and VoxelPos::from_index
VoxelPos_to_index(pos) == pos[1] + (pos[2] + pos[3] * CHUNK_SIZE) * CHUNK_SIZE
VoxelPos_from_index(index) ==
    <<index % CHUNK_SIZE,
      (index \div CHUNK_SIZE) % CHUNK_SIZE,
      (index \div (CHUNK_SIZE * CHUNK_SIZE)) % CHUNK_SIZE>>

\* A chunk of one voxel (every voxel of the chunk is that one).
homogeneous_chunk(voxel_type) == [len |-> 1, voxel |-> voxel_type]

\* A chunk of CHUNK_SIZE^3 voxels: the voxels of the box lo..hi have type
\* `mark`, all the others type `base`.
dense_chunk(base, lo, hi, mark) ==
    [len |-> CHUNK_LEN, base |-> base, lo |-> lo, hi |-> hi, mark |-> mark]

\* chunk[index]
Chunk_index(chunk, index) ==
    IF chunk.len = 1 THEN chunk.voxel
    ELSE LET pos == VoxelPos_from_index(index)
         IN  IF \A k \in 1..3 : chunk.lo[k] <= pos[k] /\ pos[k] <= chunk.hi[k]
             THEN chunk.mark ELSE chunk.base

\* chunk[voxel_pos]: a chunk of one voxel always gives that voxel.
Chunk_index_pos(chunk, voxel_pos) ==
    IF chunk.len = 1 THEN chunk.voxel
    ELSE Chunk_index(chunk, VoxelPos_to_index(voxel_pos))

\* An index that counts x in the place of z.
chunk_pos_to_index_bounds_x_last(chunk_pos, bounds) ==
    TruncRem(chunk_pos[3], bounds) + (chunk_pos[2] * bounds)
        + chunk_pos[1] * (bounds * bounds)

chunk_pos_to_index_bounds(chunk_pos, bounds) ==
    TruncRem(chunk_pos[1], bounds) + (chunk_pos[2] * bounds)
        + chunk_pos[3] * (bounds * bounds)

\* ChunksFromMiddle::get_voxel: the type of the voxel at an offset from the
\* origin of the middle chunk.  cfm is ChunksFromMiddle.chunks, the Vec of 27 chunks.
get_voxel(cfm, p) ==
    LET biased == <<Max(p[1] + CHUNK_SIZE, 0), Max(p[2] + CHUNK_SIZE, 0),
                    Max(p[3] + CHUNK_SIZE, 0)>>
        chunk_pos == <<biased[1] \div CHUNK_SIZE, biased[2] \div CHUNK_SIZE,
                       biased[3] \div CHUNK_SIZE>>
        voxel_pos == <<biased[1] % CHUNK_SIZE, biased[2] % CHUNK_SIZE,
                       biased[3] % CHUNK_SIZE>>
        chunk_index == chunk_pos_to_index_bounds(chunk_pos, CHUNKS_FROM_MIDDLE_SIZE)
    IN  Chunk_index_pos(cfm[chunk_index + 1], voxel_pos)

MIDDLE_CHUNK_INDEX == 13

\* A lookup in the first chunk of the Vec.
get_voxel_no_neighbour_first_chunk(cfm, voxel_pos) ==
    Chunk_index_pos(cfm[1], voxel_pos)

\* ChunksFromMiddle::get_voxel_no_neighbour
get_voxel_no_neighbour(cfm, voxel_pos) ==
    Chunk_index_pos(cfm[MIDDLE_CHUNK_INDEX + 1], voxel_pos)

\* ChunksFromMiddle::are_all_voxels_same
are_all_voxels_same(cfm) ==
    /\ cfm[1].len = 1
    /\ \A i \in 2..Len(cfm) :
           cfm[i].len = 1 /\ cfm[i].voxel = cfm[1].voxel

---------------------------------------------------------------------------
(* greedy_mesher.rs.  A u32 or u64 is held as the set of its 1 bits.       *)

\* (word >> y).trailing_zeros() on u32
trailing_zeros(word, y) ==
    LET above == {b \in word : b >= y}
    IN  IF above = {} THEN U32_BITS
        ELSE (CHOOSE b \in above : \A c \in above : b <= c) - y

\* (word >> y).trailing_ones()
RECURSIVE trailing_ones(_, _)
trailing_ones(word, y) ==
    IF y \in word THEN 1 + trailing_ones(word, y + 1) ELSE 0

\* u32::wrapping_shl(1, height) - 1: the shift amount is taken modulo 32.
wrapping_height_as_mask(height) == 0..((height % U32_BITS) - 1)

\* u32::checked_shl(1, height).map_or(!0, |v| v - 1)
height_as_mask(height) ==
    IF height < U32_BITS THEN 0..(height - 1) ELSE 0..(U32_BITS - 1)

\* word << y on u32
shl_bits(word, y) == {b + y : b \in {c \in word : c + y < U32_BITS}}

\* word >> y
shr_bits(word, y) == {b - y : b \in {c \in word : c >= y}}

GreedyQuad_new(x, y, w, h) == [x |-> x, y |-> y, w |-> w, h |-> h]

\* The loop with `data[row + width] &= !mask` left out.
RECURSIVE grow_without_clearing(_, _, _, _, _, _)
grow_without_clearing(data, row, y, h_mask, width, lod_size) ==
    IF row + width < lod_size
       /\ shr_bits(data[row + width], y) \cap h_mask = h_mask
    THEN grow_without_clearing(data, row, y, h_mask, width + 1, lod_size)
    ELSE [data |-> data, width |-> width]

\* The `while row + width < lod_size` loop: the width reached, and the rows
\* with the bits of the quad cleared.  data is indexed from 0.
RECURSIVE grow_horizontally(_, _, _, _, _, _)
grow_horizontally(data, row, y, h_mask, width, lod_size) ==
    IF row + width < lod_size
       /\ shr_bits(data[row + width], y) \cap h_mask = h_mask
    THEN grow_horizontally(
             [data EXCEPT ![row + width] = @ \ shl_bits(h_mask, y)],
             row, y, h_mask, width + 1, lod_size)
    ELSE [data |-> data, width |-> width]

\* The `while (y as usize) < lod_size` loop of one row.
RECURSIVE mesh_row(_, _, _, _, _)
mesh_row(data, row, y0, lod_size, quads) ==
    IF y0 >= lod_size THEN [data |-> data, quads |-> quads]
    ELSE LET y == y0 + trailing_zeros(data[row], y0)
         IN  IF y >= lod_size THEN [data |-> data, quads |-> quads]
             ELSE LET height == trailing_ones(data[row], y)
                      grown == grow_horizontally(data, row, y, height_as_mask(height),
                                                 1, lod_size)
                  IN  mesh_row(grown.data, row, y + height, lod_size,
                               Append(quads, GreedyQuad_new(row, y, grown.width, height)))

\* The `for row in 0..data.len()` loop.  A row that yields no quad leaves
\* data as it was.
RECURSIVE mesh_rows(_, _, _, _)
mesh_rows(data, row, lod_size, quads) ==
    IF row >= CHUNK_SIZE THEN quads
    ELSE LET done == mesh_row(data, row, 0, lod_size, quads)
         IN  IF done.quads = quads
             THEN mesh_rows(data, row + 1, lod_size, quads)
             ELSE mesh_rows(done.data, row + 1, lod_size, done.quads)

\* greedy_mesh_binary_plane(data, lod_size): data is [u32; 32], a function
\* from 0..31 to sets of bits.
greedy_mesh_binary_plane(data, lod_size) == mesh_rows(data, 0, lod_size, <<>>)

\* Lod::size
Lod_size(lod) ==
    CASE lod = "L32" -> 32 [] lod = "L16" -> 16 [] lod = "L8" -> 8
      [] lod = "L4" -> 4 [] lod = "L2" -> 2

PADDED == 0..(CHUNK_SIZE_PADDED - 1)
INNER == 0..(CHUNK_SIZE - 1)

\* The voxel that build_chunk_mesh gives to add_voxel_to_axis_cols for the
\* padded position (x, y, z): from the middle chunk for the inner positions,
\* from get_voxel for the positions of the padding.
padded_voxel(cfm, x, y, z) ==
    IF x \in 1..CHUNK_SIZE /\ y \in 1..CHUNK_SIZE /\ z \in 1..CHUNK_SIZE
    THEN LET chunk == cfm[chunk_pos_to_index_bounds(<<1, 1, 1>>, CHUNKS_FROM_MIDDLE_SIZE) + 1]
             i == IF chunk.len = 1 THEN 0 ELSE VoxelPos_to_index(<<x - 1, y - 1, z - 1>>)
         IN  Chunk_index(chunk, i)
    ELSE get_voxel(cfm, <<x - 1, y - 1, z - 1>>)

\* axis_cols after the four groups of loops: axis_cols[0][z][x] has bit y,
\* axis_cols[1][y][z] has bit x and axis_cols[2][y][x] has bit z for every
\* solid voxel (x, y, z).
build_axis_cols(cfm) ==
    LET solid == {v \in PADDED \X PADDED \X PADDED :
                       is_solid(padded_voxel(cfm, v[1], v[2], v[3]))}
    IN  [axis \in 0..2 |->
            [a \in PADDED |->
                [b \in PADDED |->
                    CASE axis = 0 -> {y \in PADDED : <<b, y, a>> \in solid}
                      [] axis = 1 -> {x \in PADDED : <<x, a, b>> \in solid}
                      [] axis = 2 -> {z \in PADDED : <<b, a, z>> \in solid}]]]

\* col & !(col >> 1): solid with air above
ascending_face_mask(col) == {b \in col : (b + 1) \notin col}

\* col & !(col << 1): solid with air below
descending_face_mask(col) == {b \in col : (b - 1) \notin col}

\* The face culling loops.
build_col_face_masks(axis_cols) ==
    [face \in 0..5 |->
        [a \in PADDED |->
            [b \in PADDED |->
                IF face % 2 = 0
                THEN descending_face_mask(axis_cols[face \div 2][a][b])
                ELSE ascending_face_mask(axis_cols[face \div 2][a][b])]]]

ADJACENT_AO_DIRS ==
    << <<-1, -1>>, <<-1, 0>>, <<-1, 1>>, <<0, -1>>, <<0, 0>>, <<0, 1>>,
       <<1, -1>>, <<1, 0>>, <<1, 1>> >>

\* voxel_pos of a face found at bit y of column [z][x] of an axis
face_voxel_pos(axis, x, y, z) ==
    IF axis \in {0, 1} THEN <<x, y, z>>
    ELSE IF axis \in {2, 3} THEN <<y, z, x>>
    ELSE <<x, z, y>>

ao_sample_offset(axis, ao_offset) ==
    CASE axis = 0 -> <<ao_offset[1], -1, ao_offset[2]>>
      [] axis = 1 -> <<ao_offset[1], 1, ao_offset[2]>>
      [] axis = 2 -> <<-1, ao_offset[2], ao_offset[1]>>
      [] axis = 3 -> <<1, ao_offset[2], ao_offset[1]>>
      [] axis = 4 -> <<ao_offset[1], ao_offset[2], -1>>
      [] OTHER -> <<ao_offset[1], ao_offset[2], 1>>

RECURSIVE ao_index_from(_, _, _, _)
ao_index_from(cfm, axis, voxel_pos, ao_i) ==
    IF ao_i >= Len(ADJACENT_AO_DIRS) THEN 0
    ELSE LET off == ao_sample_offset(axis, ADJACENT_AO_DIRS[ao_i + 1])
             ao_voxel == get_voxel(cfm, <<voxel_pos[1] + off[1], voxel_pos[2] + off[2],
                                          voxel_pos[3] + off[3]>>)
         IN  (IF is_solid(ao_voxel) THEN Pow2(ao_i) ELSE 0)
                 + ao_index_from(cfm, axis, voxel_pos, ao_i + 1)

\* ao_index | ((current_voxel.voxel_type as u32) << 9)
voxel_hash(cfm, axis, voxel_pos) ==
    ao_index_from(cfm, axis, voxel_pos, 0)
        + Pow2(9) * VoxelType_as_u32(get_voxel_no_neighbour(cfm, voxel_pos))

\* col >>= 1 without the clearing of the bit of the other padding voxel.
unpadded_col_keeping_top(col) == shr_bits(col, 1)

\* The clearing of bit CHUNK_SIZE without the shift before it.
unpadded_col_unshifted(col) == col \ {CHUNK_SIZE}

\* The bits left of a column of col_face_masks once the two padding bits
\* are removed: col >>= 1; col &= !(1 << CHUNK_SIZE).
unpadded_col(col) == shr_bits(col, 1) \ {CHUNK_SIZE}

\* The faces the loops of "find faces" visit: axis, loop variables x, y, z
\* and the key of the face.
found_faces(cfm, col_face_masks) ==
    UNION {UNION {UNION {
        {[axis |-> axis, x |-> x, y |-> y, z |-> z,
          hash |-> voxel_hash(cfm, axis, face_voxel_pos(axis, x, y, z))] :
            y \in unpadded_col(col_face_masks[axis][z + 1][x + 1])}
        : x \in INNER} : z \in INNER} : axis \in 0..5}

\* data after "find faces": the binary plane [u32; 32] of every key
\* <<axis, voxel_hash, y>> that some face has; data[x] |= 1 << z.
build_planes(faces) ==
    [key \in {<<f.axis, f.hash, f.y>> : f \in faces} |->
        [x \in INNER |->
            {f.z : f \in {g \in faces : /\ g.axis = key[1] /\ g.hash = key[2]
                                        /\ g.y = key[3] /\ g.x = x}}]]

FaceDir(axis) ==
    CASE axis = 0 -> "Down" [] axis = 1 -> "Up" [] axis = 2 -> "Left"
      [] axis = 3 -> "Right" [] axis = 4 -> "Front" [] OTHER -> "Back"

\* The quads of one plane, with the arguments append_vertices gets.
plane_quads(key, plane, lod) ==
    LET quads == greedy_mesh_binary_plane(plane, Lod_size(lod))
    IN  [i \in 1..Len(quads) |->
            [quad |-> quads[i], face_dir |-> FaceDir(key[1]), axis_pos |-> key[3],
             ao |-> key[2] % Pow2(9),
             voxel_type |-> VoxelType_from_u32(key[2] \div Pow2(9))]]

RECURSIVE quads_of_keys(_, _, _)
quads_of_keys(keys, data, lod) ==
    IF keys = <<>> THEN <<>>
    ELSE plane_quads(Head(keys), data[Head(keys)], lod)
             \o quads_of_keys(Tail(keys), data, lod)

\* "Time for greedy meshing": the axes in order, the keys of an axis in the
\* order the HashMaps give them.
RECURSIVE greedy_quads(_, _, _, _)
greedy_quads(data, axis, lod, ord) ==
    IF axis > 5 THEN <<>>
    ELSE quads_of_keys(hash_iter({k \in DOMAIN data : k[1] = axis}, ord), data, lod)
             \o greedy_quads(data, axis + 1, lod, ord)

\* GreedyQuad::append_vertices: the four corner vertices of a quad, each held
\* as the quad and the number of the corner.
append_vertices(vertices, q) ==
    vertices \o [corner \in 1..4 |-> [quad |-> q, corner |-> corner - 1]]

RECURSIVE vertices_of(_)
vertices_of(quads) ==
    IF quads = <<>> THEN <<>>
    ELSE append_vertices(vertices_of(SubSeq(quads, 1, Len(quads) - 1)), quads[Len(quads)])

\* generate_indices: (0..vertex_count).step_by(4), six indices a step.
RECURSIVE generate_indices_from(_, _)
generate_indices_from(vert_index, vertex_count) ==
    IF vert_index >= vertex_count THEN <<>>
    ELSE <<vert_index, vert_index + 1, vert_index + 2,
           vert_index + 2, vert_index, vert_index + 3>>
             \o generate_indices_from(vert_index + 4, vertex_count)

generate_indices(vertex_count) == generate_indices_from(0, vertex_count)

\* A mesh returned whatever its vertices.
mesh_of_any_vertices(quads, vertices) ==
    [mesh |-> "Some", quads |-> quads, vertices |-> vertices,
     indices |-> generate_indices(Len(vertices))]

\* The end of build_chunk_mesh: None if mesh.vertices.is_empty().
mesh_of_vertices(quads, vertices) ==
    IF vertices = <<>>
    THEN [mesh |-> "None", quads |-> <<>>, vertices |-> <<>>, indices |-> <<>>]
    ELSE [mesh |-> "Some", quads |-> quads, vertices |-> vertices,
          indices |-> generate_indices(Len(vertices))]

\* build_chunk_mesh, a phase at a time.  The quads are kept beside the
\* vertices, in the order their vertices are appended.

neighbourhood_of(middle, neighbour) ==
    [i \in 1..(CHUNKS_FROM_MIDDLE_SIZE * CHUNKS_FROM_MIDDLE_SIZE * CHUNKS_FROM_MIDDLE_SIZE) |->
        IF i = MIDDLE_CHUNK_INDEX + 1 THEN middle ELSE neighbour]

FIRST_VOXEL == <<0, 0, 0>>
LAST_VOXEL == <<CHUNK_SIZE - 1, CHUNK_SIZE - 1, CHUNK_SIZE - 1>>

\* The chunks tried.  Neighbours: all one type, in either representation.
uniform_chunks(voxel_type) ==
    {homogeneous_chunk(voxel_type),
     dense_chunk(voxel_type, FIRST_VOXEL, LAST_VOXEL, voxel_type)}

\* Positions of a single voxel: corners, edges, faces and the inside.
MesherCoords == {0, CHUNK_SIZE \div 2, CHUNK_SIZE - 1}
single_voxel_chunks ==
    {dense_chunk(AIR, pos, pos, "Block") :
        pos \in MesherCoords \X MesherCoords \X MesherCoords}

\* Slabs CHUNK_SIZE x 1 x CHUNK_SIZE at a height y.
slab_chunks ==
    {dense_chunk(AIR, <<0, y, 0>>, <<CHUNK_SIZE - 1, y, CHUNK_SIZE - 1>>, "Block") :
        y \in MesherCoords}

MesherInputs ==
    {neighbourhood_of(m, n) : m \in uniform_chunks("Block"), n \in uniform_chunks("Block")}
        \cup {neighbourhood_of(m, n) : m \in single_voxel_chunks \cup slab_chunks,
                                       n \in uniform_chunks(AIR)}

MesherInit ==
    /\ PipelineInit
    /\ fn_pc = "build_chunk_mesh"
    /\ fn_in \in [chunks_from_middle : MesherInputs, lod : {"L32"}]
    /\ fn_i = 0
    /\ fn_out = <<>>

\* are_all_voxels_same, else the loops that fill axis_cols
mesh_axis_cols ==
    /\ fn_pc = "build_chunk_mesh"
    /\ IF are_all_voxels_same(fn_in.chunks_from_middle)
       THEN /\ fn_out' = [mesh |-> "None", quads |-> <<>>, vertices |-> <<>>,
                           indices |-> <<>>]
            /\ fn_pc' = "done"
       ELSE /\ fn_out' = [axis_cols |-> build_axis_cols(fn_in.chunks_from_middle)]
            /\ fn_pc' = "face_culling"
    /\ UNCHANGED <<fn_i, fn_in, loader_vars, world_vars, sched_vars>>

mesh_face_culling ==
    /\ fn_pc = "face_culling"
    /\ fn_out' = [col_face_masks |-> build_col_face_masks(fn_out.axis_cols)]
    /\ fn_pc' = "find_faces"
    /\ UNCHANGED <<fn_i, fn_in, loader_vars, world_vars, sched_vars>>

mesh_find_faces ==
    /\ fn_pc = "find_faces"
    /\ fn_out' = [data |-> build_planes(found_faces(fn_in.chunks_from_middle,
                                                    fn_out.col_face_masks))]
    /\ fn_pc' = "greedy_meshing"
    /\ UNCHANGED <<fn_i, fn_in, loader_vars, world_vars, sched_vars>>

\* The greedy meshing loops, and the result: None for a mesh of no vertex.
mesh_greedy_meshing ==
    /\ fn_pc = "greedy_meshing"
    /\ \E ord \in HashOrders :
          LET quads == greedy_quads(fn_out.data, 0, fn_in.lod, ord)
          IN  fn_out' = mesh_of_vertices(quads, vertices_of(quads))
    /\ fn_pc' = "done"
    /\ UNCHANGED <<fn_i, fn_in, loader_vars, world_vars, sched_vars>>

MesherNext ==
    \/ mesh_axis_cols
    \/ mesh_face_culling
    \/ mesh_find_faces
    \/ mesh_greedy_meshing

SpecMesher == MesherInit /\ [][MesherNext]_vars

---------------------------------------------------------------------------
(* build_chunk_mesh on chunks with and without a face to show.             *)

\* A solid chunk but for one voxel of air.
single_hole_chunks ==
    {dense_chunk("Block", pos, pos, AIR) :
        pos \in MesherCoords \X MesherCoords \X MesherCoords}

\* Solid or air in the middle, in either representation, among solid or air;
\* and the solid chunks of one hole among solid chunks.
MeshResultInputs ==
    {neighbourhood_of(m, n) : m \in uniform_chunks("Block") \cup uniform_chunks(AIR),
                               n \in uniform_chunks("Block") \cup uniform_chunks(AIR)}
        \cup {neighbourhood_of(m, homogeneous_chunk("Block")) : m \in single_hole_chunks}

MeshResultInit ==
    /\ PipelineInit
    /\ fn_pc = "build_chunk_mesh"
    /\ fn_in \in [chunks_from_middle : MeshResultInputs, lod : {"L32"}]
    /\ fn_i = 0
    /\ fn_out = <<>>

SpecMeshResult == MeshResultInit /\ [][MesherNext]_vars

---------------------------------------------------------------------------
(* ChunksFromMiddle::try_new called on a store that may lack chunks.       *)

MaxAbsent == 2

\* The stores tried: the 27 chunks around the middle chunk, but for at most
\* MaxAbsent of them.
TryNewStores(middle_chunk) ==
    LET block == {ChunkPos_add(middle_chunk, ADJACENT_CHUNK_DIRECTIONS[i]) :
                      i \in 1..Len(ADJACENT_CHUNK_DIRECTIONS)}
    IN  {block \ absent : absent \in {a \in SUBSET block : Cardinality(a) <= MaxAbsent}}

TryNewInit ==
    /\ PipelineInit
    /\ fn_pc = "try_new"
    /\ \E middle_chunk \in {ORIGIN, INITIAL_PREV_CHUNK_POS} :
          fn_in \in [store : TryNewStores(middle_chunk), middle_chunk : {middle_chunk}]
    /\ fn_i = 0
    /\ fn_out = <<>>

call_try_new ==
    /\ fn_pc = "try_new"
    /\ fn_out' = try_new(fn_in.store, fn_in.middle_chunk)
    /\ fn_pc' = "done"
    /\ UNCHANGED <<fn_i, fn_in, loader_vars, world_vars, sched_vars>>

SpecTryNew == TryNewInit /\ [][call_try_new]_vars

---------------------------------------------------------------------------
(* An accessor built by try_new on a store holding the 27 chunks, and read *)
(* at an offset from the origin of the middle chunk.                       *)

\* The Vec try_new fills, chunk_hashmap being a function of the coordinates.
try_new_chunks(chunk_hashmap, middle_chunk) ==
    LET size == CHUNKS_FROM_MIDDLE_SIZE
    IN  [i \in 1..(size * size * size) |->
            chunk_hashmap[ChunkPos_add(middle_chunk,
                              ChunkPos_add(index_to_chunk_pos_bounds(i - 1, size),
                                           ChunkPos_splat(-1)))]]

AccessorCentres == {ORIGIN, ChunkPos_new(-1, 2, 0)}

\* In-chunk positions of the one solid voxel of a store.
AccessorVoxels == {0, CHUNK_SIZE - 1} \X {0, CHUNK_SIZE - 1} \X {0, CHUNK_SIZE - 1}

\* The offsets read, on each axis: the ends of the three chunks.
AccessorOffsets ==
    {-CHUNK_SIZE, -1, 0, CHUNK_SIZE - 1, CHUNK_SIZE, 2 * CHUNK_SIZE - 1}

\* The stores tried: air in the 27 chunks around the centre, but for one
\* solid voxel in one of them.
AccessorStores(centre) ==
    LET block == {ChunkPos_add(centre, ADJACENT_CHUNK_DIRECTIONS[i]) :
                      i \in 1..Len(ADJACENT_CHUNK_DIRECTIONS)}
    IN  {[c \in block |-> IF c = marked THEN dense_chunk(AIR, pos, pos, "Block")
                          ELSE homogeneous_chunk(AIR)] :
            marked \in block, pos \in AccessorVoxels}

AccessorInit ==
    /\ PipelineInit
    /\ fn_pc = "try_new"
    /\ \E centre \in AccessorCentres :
          fn_in \in [store : AccessorStores(centre), middle_chunk : {centre},
                     p : AccessorOffsets \X AccessorOffsets \X AccessorOffsets]
    /\ fn_i = 0
    /\ fn_out = <<>>

accessor_try_new ==
    /\ fn_pc = "try_new"
    /\ fn_out' = [chunks |-> try_new_chunks(fn_in.store, fn_in.middle_chunk)]
    /\ fn_pc' = "get_voxel"
    /\ UNCHANGED <<fn_i, fn_in, loader_vars, world_vars, sched_vars>>

accessor_get_voxel ==
    /\ fn_pc = "get_voxel"
    /\ fn_out' = [chunks |-> fn_out.chunks,
                   voxel |-> get_voxel(fn_out.chunks, fn_in.p),
                   voxel_no_neighbour |->
                       IF fn_in.p \in INNER \X INNER \X INNER
                       THEN get_voxel_no_neighbour(fn_out.chunks, fn_in.p)
                       ELSE "not called"]
    /\ fn_pc' = "done"
    /\ UNCHANGED <<fn_i, fn_in, loader_vars, world_vars, sched_vars>>

SpecAccessor == AccessorInit /\ [][accessor_try_new \/ accessor_get_voxel]_vars

---------------------------------------------------------------------------
(* ChunkLoader::new(load_distance) and the areas detect_move samples with  *)
(* its offsets around an observer chunk.                                   *)

MaxViewDistance == 1

\* A loader whose data offsets reach no further than its mesh offsets.
data_distance_without_margin(load_distance) == load_distance

data_distance(load_distance) == load_distance + 1
mesh_distance(load_distance) == load_distance

ObserverCoords == {-2, 0, 1, INITIAL_PREV_CHUNK_POS[1]}

SamplingInit ==
    /\ PipelineInit
    /\ fn_pc = "new"
    /\ fn_in \in [chunk_pos : {ChunkPos_new(x, y, z) : x \in ObserverCoords,
                                                     y \in ObserverCoords,
                                                     z \in ObserverCoords},
                  load_distance : 0..MaxViewDistance]
    /\ fn_i = 0
    /\ fn_out = <<>>

\* ChunkLoader::new(load_distance)
loader_new ==
    /\ fn_pc = "new"
    /\ fn_out' =
           [data_sampling_offsets |->
                make_spherical_offsets(data_distance(fn_in.load_distance)),
            mesh_sampling_offsets |->
                make_spherical_offsets(mesh_distance(fn_in.load_distance))]
    /\ fn_pc' = "sample"
    /\ UNCHANGED <<fn_i, fn_in, loader_vars, world_vars, sched_vars>>

\* load_data_area and load_mesh_area of detect_move around chunk_pos
sample_areas ==
    /\ fn_pc = "sample"
    /\ fn_out' =
           [load_data_area |-> sampled(fn_out.data_sampling_offsets, fn_in.chunk_pos),
            load_mesh_area |-> sampled(fn_out.mesh_sampling_offsets, fn_in.chunk_pos)]
    /\ fn_pc' = "done"
    /\ UNCHANGED <<fn_i, fn_in, loader_vars, world_vars, sched_vars>>

SamplingNext == loader_new \/ sample_areas

SpecSampling == SamplingInit /\ [][SamplingNext]_vars

---------------------------------------------------------------------------
(* start_data_tasks and start_mesh_tasks on their own, from the end of an  *)
(* Update stage with coordinates pending in the store's load queues, jobs  *)
(* in flight up to the caps, and the chunks around the pending coordinates *)
(* resident.                                                               *)

\* The coordinates pending: at distances 1, 1, 4 from chunk (0,0,0) and
\* 4, 0, 1 from chunk (1,0,0).
PendingCoords == {ChunkPos_new(-1, 0, 0), ChunkPos_new(1, 0, 0), ChunkPos_new(2, 0, 0)}

\* The queues over S that hold no coordinate twice.
queues_over(S) ==
    {q \in UNION {[1..n -> S] : n \in 0..Cardinality(S)} :
        \A i, j \in 1..Len(q) : i # j => q[i] # q[j]}

\* The coordinates of n jobs in flight, none of them pending.
in_flight(n) == [i \in 1..n |-> ChunkPos_add(INITIAL_PREV_CHUNK_POS, ChunkPos_new(i, 0, 0))]

\* How many slots the caps leave free.
FreeSlots == 0..MAX_MESH_TASKS

StartTasksInit ==
    /\ FnIdle
    /\ translation \in Translations
    /\ prev_chunk_pos = observer_chunk_pos(translation)
    /\ data_load_queue = <<>>
    /\ mesh_load_queue = <<>>
    /\ data_unload_queue = <<>>
    /\ mesh_unload_queue = <<>>
    /\ chunks = UNION {sampled(ADJACENT_CHUNK_DIRECTIONS, c) : c \in PendingCoords}
    /\ load_data_queue \in queues_over(PendingCoords)
    /\ load_mesh_queue \in queues_over(PendingCoords)
    /\ unload_data_queue = <<>>
    /\ unload_mesh_queue = <<>>
    /\ \E free \in FreeSlots : data_tasks = Range(in_flight(MAX_DATA_TASKS - free))
    /\ \E free \in FreeSlots : mesh_tasks = in_flight(MAX_MESH_TASKS - free)
    /\ chunk_entities = <<>>
    /\ entities = {}
    /\ pre_order \in PreUpdateOrders
    /\ pc = CHOOSE i \in 1..Len(Schedule) : Schedule[i] = "start_data_tasks"
    /\ panicked = FALSE
    /\ moves = 0
    /\ detected = prev_chunk_pos
    /\ last = Ran("player_move", FALSE, FALSE, 0, 0)

StartTasksNext == start_data_tasks \/ start_mesh_tasks

SpecStartTasks == StartTasksInit /\ [][StartTasksNext]_vars

---------------------------------------------------------------------------
(* greedy_mesh_binary_plane on its own, on planes of CHUNK_SIZE rows made  *)
(* of three chosen rows (the first two and the last) and a filling for the *)
(* rows between them.                                                      *)

\* The rows tried: empty, full, single bits and runs at both ends, and a gap.
PlaneRows ==
    {{}, 0..(U32_BITS - 1), {0}, {1}, {0, 1}, {0, 2}, {U32_BITS - 1},
     {U32_BITS - 2, U32_BITS - 1}}

plane_of(first, second, filling, final) ==
    [row \in 0..(CHUNK_SIZE - 1) |->
        IF row = 0 THEN first
        ELSE IF row = 1 THEN second
        ELSE IF row = CHUNK_SIZE - 1 THEN final
        ELSE filling]

PlaneInit ==
    /\ PipelineInit
    /\ fn_pc = "greedy_mesh_binary_plane"
    /\ fn_in \in {[data |-> plane_of(first, second, filling, final),
                   lod_size |-> CHUNK_SIZE] :
                      first \in PlaneRows, second \in PlaneRows,
                      filling \in {{}, 0..(U32_BITS - 1), {1}},
                      final \in PlaneRows}
    /\ fn_i = 0
    /\ fn_out = <<>>

call_greedy_mesh_binary_plane ==
    /\ fn_pc = "greedy_mesh_binary_plane"
    /\ fn_out' = greedy_mesh_binary_plane(fn_in.data, fn_in.lod_size)
    /\ fn_pc' = "done"
    /\ UNCHANGED <<fn_i, fn_in, loader_vars, world_vars, sched_vars>>

SpecPlane == PlaneInit /\ [][call_greedy_mesh_binary_plane]_vars

---------------------------------------------------------------------------
(* The pipeline with every system run in every tick and every job brought  *)
(* to an end; the observer moves at most MaxMoves times.                   *)

SpecFair == Init /\ [][Next]_vars /\ WF_pc(system_runs) /\ JobsComplete

---------------------------------------------------------------------------
(* The chunk coordinate detect_move computes for an observer position.     *)

MaxTranslation == 80

\* Positions in whole world units: one component anywhere within
\* MaxTranslation of the origin, the other two on either side of it.
ObserverTranslations ==
    {[k \in 1..3 |-> IF k = axis THEN v ELSE rest] :
        axis \in 1..3, v \in (-MaxTranslation)..MaxTranslation,
        rest \in {-START_TRANSLATION[1], START_TRANSLATION[1]}}

ObserverInit ==
    /\ PipelineInit
    /\ fn_pc = "detect_move"
    /\ fn_in \in [translation : ObserverTranslations]
    /\ fn_i = 0
    /\ fn_out = <<>>

\* let chunk_pos = ChunkPos::from_vec3(..) in detect_move
detect_chunk_pos ==
    /\ fn_pc = "detect_move"
    /\ fn_out' = observer_chunk_pos(fn_in.translation)
    /\ fn_pc' = "done"
    /\ UNCHANGED <<fn_i, fn_in, loader_vars, world_vars, sched_vars>>

SpecObserver == ObserverInit /\ [][detect_chunk_pos]_vars

---------------------------------------------------------------------------
(* detect_move run once on two loaders.  A loader is held as a record: its *)
(* GlobalTransform translation and the fields of its ChunkLoader.          *)

\* The body of the loop of detect_move for one loader whose chunk_pos has
\* changed; w is the World (its two load queues).
loader_detect_move(loader, chunk_pos, w, ord) ==
    LET prev == loader.prev_chunk_pos
        load_data_area   == sampled(data_sampling_offsets, chunk_pos)
        unload_data_area == sampled(data_sampling_offsets, prev)
        load_mesh_area   == sampled(mesh_sampling_offsets, chunk_pos)
        unload_mesh_area == sampled(mesh_sampling_offsets, prev)
        dl == loader.data_load_queue
                  \o hash_iter(difference(load_data_area, unload_data_area), ord)
        du == loader.data_unload_queue
                  \o hash_iter(difference(unload_data_area, load_data_area), ord)
        ml == loader.mesh_load_queue
                  \o hash_iter(difference(load_mesh_area, unload_mesh_area), ord)
        mu == loader.mesh_unload_queue
                  \o hash_iter(difference(unload_mesh_area, load_mesh_area), ord)
    IN  [loader |-> [translation |-> loader.translation,
                     prev_chunk_pos |-> updated_prev_chunk_pos(chunk_pos, prev),
                     data_load_queue |-> sort_by_distance(RetainNotIn(dl, du), chunk_pos),
                     mesh_load_queue |-> sort_by_distance(RetainNotIn(ml, mu), chunk_pos),
                     data_unload_queue |-> du,
                     mesh_unload_queue |-> mu],
         world |-> [load_data_queue |-> RemoveEach(w.load_data_queue, du),
                    load_mesh_queue |-> RemoveEach(w.load_mesh_queue, mu)]]

\* for (mut loader, g_transform) in loaders.iter_mut(), from the i-th loader
\* on: `return` at the first loader whose chunk_pos has not changed.
RECURSIVE detect_move_loop(_, _, _, _)
detect_move_loop(loaders, i, w, ord) ==
    IF i > Len(loaders) THEN [loaders |-> loaders, world |-> w]
    ELSE LET chunk_pos == observer_chunk_pos(loaders[i].translation)
         IN  IF ~chunk_pos_has_changed(chunk_pos, loaders[i].prev_chunk_pos)
             THEN [loaders |-> loaders, world |-> w]
             ELSE LET r == loader_detect_move(loaders[i], chunk_pos, w, ord)
                  IN  detect_move_loop([loaders EXCEPT ![i] = r.loader], i + 1,
                                       r.world, ord)

\* The positions of the two observers: chunks (0,0,0), (1,0,0), (-2,0,0).
LoaderTranslations == Translations \cup {<<-50, 9, 9>>}

\* A loader at one of the positions, its queues empty, that has last seen
\* one of the chunks of these positions, or none.
LoadersTried ==
    {[translation |-> t, prev_chunk_pos |-> prev,
      data_load_queue |-> <<>>, mesh_load_queue |-> <<>>,
      data_unload_queue |-> <<>>, mesh_unload_queue |-> <<>>] :
        t \in LoaderTranslations,
        prev \in {observer_chunk_pos(u) : u \in LoaderTranslations}
                    \cup {INITIAL_PREV_CHUNK_POS}}

TwoLoadersInit ==
    /\ PipelineInit
    /\ fn_pc = "detect_move"
    /\ fn_in \in [loaders : {<<first, second>> : first \in LoadersTried,
                                                  second \in LoadersTried},
                   world : {[load_data_queue |-> <<>>, load_mesh_queue |-> <<>>]}]
    /\ fn_i = 0
    /\ fn_out = <<>>

detect_move_two_loaders ==
    /\ fn_pc = "detect_move"
    /\ \E ord \in HashOrders :
          fn_out' = detect_move_loop(fn_in.loaders, 1, fn_in.world, ord)
    /\ fn_pc' = "done"
    /\ UNCHANGED <<fn_i, fn_in, loader_vars, world_vars, sched_vars>>

SpecTwoLoaders == TwoLoadersInit /\ [][detect_move_two_loaders]_vars

---------------------------------------------------------------------------
(* generate_indices called on the vertices of whole quads.                 *)

MaxQuads == 60

IndicesInit ==
    /\ PipelineInit
    /\ fn_pc = "generate_indices"
    /\ fn_in \in {[vertex_count |-> 4 * quads] : quads \in 0..MaxQuads}
    /\ fn_i = 0
    /\ fn_out = <<>>

call_generate_indices ==
    /\ fn_pc = "generate_indices"
    /\ fn_out' = generate_indices(fn_in.vertex_count)
    /\ fn_pc' = "done"
    /\ UNCHANGED <<fn_i, fn_in, loader_vars, world_vars, sched_vars>>

SpecIndices == IndicesInit /\ [][call_generate_indices]_vars

---------------------------------------------------------------------------
(* Properties.                                                             *)

NoDuplicates(s) == \A i, j \in 1..Len(s) : i # j => s[i] # s[j]

\* The 27 coordinates c + (dx, dy, dz) with dx, dy, dz in {-1, 0, 1}.
Neighbourhood(c) ==
    {<<c[1] + dx, c[2] + dy, c[3] + dz>> : dx \in -1..1, dy \in -1..1, dz \in -1..1}

\* C1: in every reachable state the number of in-flight data jobs is at most
\* MAX_DATA_TASKS and the number of in-flight mesh jobs at most MAX_MESH_TASKS.
C1_TaskCaps ==
    /\ Cardinality(data_tasks) <= MAX_DATA_TASKS
    /\ Len(mesh_tasks) <= MAX_MESH_TASKS

\* The data cap binds: the jobs in flight fill it and coordinates still wait.
C1_Witness ==
    /\ last.sys = "start_data_tasks"
    /\ Cardinality(data_tasks) = MAX_DATA_TASKS
    /\ load_data_queue # <<>>

\* C2: the global pending-load queue never holds a coordinate twice; every
\* coordinate start_data_tasks takes from it becomes a new in-flight job (none
\* of them had a job in flight already); and every coordinate load_chunks adds
\* to it was neither resident nor in flight.
C2_DataNoDuplicate ==
    [][ /\ NoDuplicates(load_data_queue')
        /\ Running("start_data_tasks") =>
               Cardinality(data_tasks') =
                   Cardinality(data_tasks) + Len(load_data_queue) - Len(load_data_queue')
        /\ Running("load_chunks") =>
               \A c \in Range(load_data_queue') :
                   Contains(load_data_queue, c) \/ (c \notin chunks /\ c \notin data_tasks)
      ]_vars

\* load_chunks has accepted some coordinates and dropped some busy ones.
C2_Witness ==
    /\ last.sys = "load_chunks"
    /\ last.n > 0
    /\ last.m > 0

\* C3: World.mesh_tasks never holds two in-flight mesh jobs for the same
\* coordinate.
C3_MeshNoDuplicate == NoDuplicates(mesh_tasks)

\* C4: load_mesh moves a coordinate into the global mesh-load queue only if
\* all 27 coordinates of its neighbourhood are resident at that moment.
C4_MeshNeedsNeighbours ==
    [][ Running("load_mesh") =>
            \A c \in Range(load_mesh_queue') :
                Contains(load_mesh_queue, c) \/ Neighbourhood(c) \subseteq chunks
      ]_vars

\* load_mesh has accepted a coordinate.
C4_Witness ==
    /\ last.sys = "load_mesh"
    /\ last.n > 0

\* C5: every coordinate in the loader's mesh-load queue when load_mesh runs is
\* afterwards in the global mesh-load queue or still in the loader's queue, and
\* one whose neighbourhood is not all resident is still in the loader's queue.
C5_MeshRetryKept ==
    [][ Running("load_mesh") =>
            \A c \in Range(mesh_load_queue) :
                /\ Contains(load_mesh_queue', c) \/ Contains(mesh_load_queue', c)
                /\ ~(Neighbourhood(c) \subseteq chunks) => Contains(mesh_load_queue', c)
      ]_vars

\* load_mesh has put a coordinate back for a retry.
C5_Witness ==
    /\ last.sys = "load_mesh"
    /\ last.m > 0
    /\ mesh_load_queue # <<>>

\* C6: no coordinate is in both the loader's data-load and data-unload queues,
\* and none in both its mesh-load and mesh-unload queues.
C6_LoadUnloadDisjoint ==
    /\ Range(data_load_queue) \cap Range(data_unload_queue) = {}
    /\ Range(mesh_load_queue) \cap Range(mesh_unload_queue) = {}

\* detect_move has just removed from a load queue a coordinate to unload.
C6_Witness ==
    /\ last.sys = "detect_move"
    /\ last.n > 0

\* C7: when the four loader queues are empty and the chunk coordinate changes
\* from p to q, detect_move leaves in each queue exactly the difference of the
\* sampled sets, each coordinate once.
C7_QueuesAreDifferences ==
    [][ ( /\ Running("detect_move")
          /\ data_load_queue = <<>> /\ data_unload_queue = <<>>
          /\ mesh_load_queue = <<>> /\ mesh_unload_queue = <<>>
          /\ observer_chunk_pos(translation) # prev_chunk_pos )
        => LET p == prev_chunk_pos
               q == observer_chunk_pos(translation)
               data(c) == sampled(data_sampling_offsets, c)
               mesh(c) == sampled(mesh_sampling_offsets, c)
           IN  /\ Range(data_load_queue') = data(q) \ data(p)
               /\ Range(data_unload_queue') = data(p) \ data(q)
               /\ Range(mesh_load_queue') = mesh(q) \ mesh(p)
               /\ Range(mesh_unload_queue') = mesh(p) \ mesh(q)
               /\ NoDuplicates(data_load_queue')
               /\ NoDuplicates(data_unload_queue')
               /\ NoDuplicates(mesh_load_queue')
               /\ NoDuplicates(mesh_unload_queue')
      ]_vars

\* detect_move has seen a move between two positions of the observer with
\* the four queues empty.
C7_Witness ==
    /\ last.sys = "detect_move"
    /\ last.changed
    /\ last.empty
    /\ moves > 0
    /\ data_load_queue # <<>>
    /\ data_unload_queue # <<>>

\* C8: a detect_move that finds the observer at the chunk coordinate the
\* previous detect_move found leaves the four loader queues, prev_chunk_pos
\* and the global queues unchanged.
C8_DetectMoveIdempotent ==
    [][ (Running("detect_move") /\ observer_chunk_pos(translation) = detected)
        => UNCHANGED <<loader_vars, load_data_queue, load_mesh_queue,
                       unload_data_queue, unload_mesh_queue>>
      ]_vars

\* detect_move has run again at the same chunk coordinate, with work queued.
C8_Witness ==
    /\ last.sys = "detect_move"
    /\ ~last.changed
    /\ moves > 0
    /\ mesh_load_queue # <<>>

\* C9: make_spherical_offsets(r) returns (2r+1)^3 pairwise distinct offsets,
\* exactly the integer points with every component in [-r, r], ordered
\* non-decreasing by squared distance from the origin.
C9_SphericalOffsets ==
    fn_pc = "done" =>
        /\ Len(fn_out) = side(fn_in) * side(fn_in) * side(fn_in)
        /\ NoDuplicates(fn_out)
        /\ Range(fn_out) = {<<x, y, z>> : x \in (-fn_in)..fn_in,
                                          y \in (-fn_in)..fn_in,
                                          z \in (-fn_in)..fn_in}
        /\ \A i \in 1..(Len(fn_out) - 1) :
               distance_squared(fn_out[i], ORIGIN) <= distance_squared(fn_out[i + 1], ORIGIN)

\* make_spherical_offsets has returned for a radius above 0.
C9_Witness ==
    /\ fn_pc = "done"
    /\ fn_in > 0
    /\ Len(fn_out) > 1

\* C10: to_voxel_pos(w) yields a voxel coordinate in [0, CHUNK_SIZE) per axis
\* and a chunk coordinate with from_voxel_pos(voxel, chunk) = w.
C10_RoundTrip ==
    fn_pc = "done" =>
        /\ \A i \in 1..3 : fn_out.voxel_pos[i] \in 0..(CHUNK_SIZE - 1)
        /\ fn_out.world_pos = fn_in

\* C11: for every vertex within the field bounds, from_u32(to_u32(v)) equals
\* v in every field: x, y, z, ao, normal and voxel type.
C11_VertexRoundTrip ==
    fn_pc = "done" => fn_out = fn_in

\* The number of solid voxels of a chunk.
solid_voxels(chunk) ==
    IF chunk.len = 1 THEN (IF is_solid(chunk.voxel) THEN CHUNK_LEN ELSE 0)
    ELSE LET volume == (chunk.hi[1] - chunk.lo[1] + 1) * (chunk.hi[2] - chunk.lo[2] + 1)
                           * (chunk.hi[3] - chunk.lo[3] + 1)
         IN  (IF is_solid(chunk.mark) THEN volume ELSE 0)
                 + (IF is_solid(chunk.base) THEN CHUNK_LEN - volume ELSE 0)

middle_chunk_of(cfm) == cfm[MIDDLE_CHUNK_INDEX + 1]

neighbours_all_air(cfm) ==
    \A i \in (1..Len(cfm)) \ {MIDDLE_CHUNK_INDEX + 1} : solid_voxels(cfm[i]) = 0

\* Every voxel of the padding around the middle chunk, one voxel thick, is
\* solid.
padding_all_solid(cfm) ==
    \A v \in PADDED \X PADDED \X PADDED :
        (\E k \in 1..3 : v[k] \in {0, CHUNK_SIZE_PADDED - 1})
            => is_solid(get_voxel(cfm, <<v[1] - 1, v[2] - 1, v[3] - 1>>))

fully_enclosed_input ==
    /\ solid_voxels(middle_chunk_of(fn_in.chunks_from_middle)) = CHUNK_LEN
    /\ padding_all_solid(fn_in.chunks_from_middle)

single_voxel_input ==
    /\ solid_voxels(middle_chunk_of(fn_in.chunks_from_middle)) = 1
    /\ neighbours_all_air(fn_in.chunks_from_middle)

\* The middle chunk is dense, with exactly the voxels of one height solid.
slab_input ==
    LET middle == middle_chunk_of(fn_in.chunks_from_middle)
    IN  /\ middle.len = CHUNK_LEN
        /\ ~is_solid(middle.base) /\ is_solid(middle.mark)
        /\ middle.lo[2] = middle.hi[2]
        /\ middle.lo[1] = 0 /\ middle.hi[1] = CHUNK_SIZE - 1
        /\ middle.lo[3] = 0 /\ middle.hi[3] = CHUNK_SIZE - 1
        /\ neighbours_all_air(fn_in.chunks_from_middle)

quads_facing(face_dir) ==
    SelectSeq(fn_out.quads, LAMBDA q : q.face_dir = face_dir)

FaceDirs == {FaceDir(axis) : axis \in 0..5}

C15_EmptyMeshRemovesHandle ==
    [][ Running("join_mesh") =>
            \A c \in last'.none \ last'.meshed :
                /\ c \notin DOMAIN chunk_entities'
                /\ c \in DOMAIN chunk_entities => chunk_entities[c] \notin entities'
      ]_vars

\* C16: try_new(store, c) returns none, without aborting, whenever one of the
\* 27 coordinates of the block around c is absent from the store, and an
\* accessor otherwise.
C16_TryNewReturnsNone ==
    fn_pc = "done" =>
        fn_out = IF Neighbourhood(fn_in.middle_chunk) \subseteq fn_in.store
                 THEN "some" ELSE "none"

\* C17: within one tick, for each layer the unload steps run before the load
\* admission steps: unload_chunks and unload_data before load_chunks and
\* start_data_tasks, and unload_mesh and World::unload_mesh before load_mesh
\* and start_mesh_tasks.
C17_UnloadsBeforeLoads ==
    /\ (Running("load_chunks") \/ Running("start_data_tasks"))
           => {"unload_chunks", "unload_data"} \subseteq Range(ran_this_tick)
    /\ (Running("load_mesh") \/ Running("start_mesh_tasks"))
           => {"unload_mesh", "world_unload_mesh"} \subseteq Range(ran_this_tick)

\* C17, amended: within one tick the unload steps of a layer run before the
\* jobs of that layer are started (start_data_tasks, start_mesh_tasks), and
\* the loader's admissions (load_chunks, load_mesh) run before the store's
\* unloads (unload_data, World::unload_mesh).
C17_UnloadsBeforeTaskStarts ==
    /\ Running("start_data_tasks")
           => {"unload_chunks", "unload_data"} \subseteq Range(ran_this_tick)
    /\ Running("start_mesh_tasks")
           => {"unload_mesh", "world_unload_mesh"} \subseteq Range(ran_this_tick)
    /\ Running("unload_data") => Contains(ran_this_tick, "load_chunks")
    /\ Running("world_unload_mesh") => Contains(ran_this_tick, "load_mesh")

\* unload_data is about to remove chunks from the store in a tick in which
\* load_chunks has admitted coordinates, whose jobs are yet to be started.
C17_Witness ==
    /\ Running("unload_data")
    /\ unload_data_queue # <<>>
    /\ load_data_queue # <<>>
    /\ Contains(ran_this_tick, "load_chunks")

C19_DataJobsRunToInsertion ==
    [][\A chunk_pos \in data_tasks \ data_tasks' :
           /\ last'.sys = "join_data"
           /\ chunk_pos \in chunks']_vars

\* join_data has just joined jobs, and a chunk outside the loader's data
\* area is resident with no unload pending for it.
C19_Witness ==
    /\ last.sys = "join_data"
    /\ last.n > 0
    /\ \E chunk_pos \in chunks :
          /\ chunk_pos \notin sampled(data_sampling_offsets, prev_chunk_pos)
          /\ ~Contains(unload_data_queue, chunk_pos)

\* C20: around every observer chunk and for every view distance, each
\* coordinate of the mesh area has itself and its 26 neighbours in the data
\* area, the data offsets being built with the view distance plus one.
C20_MeshAreaInsideDataArea ==
    fn_pc = "done" =>
        \A chunk_pos \in fn_out.load_mesh_area :
            Neighbourhood(chunk_pos) \subseteq fn_out.load_data_area

\* The areas of a loader with a view distance above zero have been sampled:
\* the mesh area has coordinates besides the observer's, and the data area
\* has coordinates outside the mesh area.
C20_Witness ==
    /\ fn_pc = "done"
    /\ fn_in.load_distance > 0
    /\ fn_out.load_mesh_area # {fn_in.chunk_pos}
    /\ fn_out.load_data_area \ fn_out.load_mesh_area # {}

\* The coordinates the mesh area of an observer can hold.
MeshCoords ==
    UNION {sampled(mesh_sampling_offsets, observer_chunk_pos(t)) : t \in Translations}

\* C21: when the observer changes position at most once and every job
\* finishes, every coordinate that stays in the mesh area around the observer
\* eventually has a mesh job spawned for it.
C21_MeshJobEventuallySpawned ==
    \A chunk_pos \in MeshCoords :
        <>[](chunk_pos \in sampled(mesh_sampling_offsets, observer_chunk_pos(translation)))
            => <>(Contains(mesh_tasks, chunk_pos))

\* After one move, start_mesh_tasks has spawned the mesh job of the chunk the
\* observer is in, all 27 chunks around it being resident.
C21_Witness ==
    /\ last.sys = "start_mesh_tasks"
    /\ moves = 1
    /\ prev_chunk_pos = observer_chunk_pos(translation)
    /\ prev_chunk_pos # observer_chunk_pos(START_TRANSLATION)
    /\ Contains(mesh_tasks, prev_chunk_pos)
    /\ Neighbourhood(prev_chunk_pos) \subseteq chunks

\* C22: join_data polls each job once.  The last.n jobs it found finished
\* are the ones that leave world.data_tasks, their chunks are in world.chunks
\* afterwards, the store is otherwise as it was, and every other job is
\* still in world.data_tasks under its coordinate.
C22_JoinDataKeepsUnfinished ==
    [][last'.sys = "join_data" =>
           LET joined == data_tasks \ data_tasks'
           IN  /\ Cardinality(joined) = last'.n
               /\ data_tasks' = data_tasks \ joined
               /\ chunks' = chunks \cup joined]_vars

\* join_data has found some jobs finished and others not: the unfinished ones
\* are still in flight and not resident.
C22_Witness ==
    /\ last.sys = "join_data"
    /\ last.n > 0
    /\ data_tasks # {}
    /\ data_tasks \cap chunks = {}

\* C23: join_mesh destroys the entity recorded for a coordinate before it
\* records a new one, so in every state the live chunk entities are exactly
\* the ones recorded in world.chunk_entities, one per coordinate.
C23_OneEntityPerCoordinate ==
    /\ entities = {chunk_entities[c] : c \in DOMAIN chunk_entities}
    /\ \A c, d \in DOMAIN chunk_entities :
           chunk_entities[c] = chunk_entities[d] => c = d

\* join_mesh has applied a mesh to a coordinate that had an entity, while
\* another coordinate has an entity too.
C23_Witness ==
    /\ last.sys = "join_mesh"
    /\ last.replaced # {}
    /\ Cardinality(DOMAIN chunk_entities) > 1

\* C24: unload_chunks appends to world.unload_data_queue only coordinates
\* that are resident when it runs; unload_data removes from world.chunks
\* exactly the coordinates of world.unload_data_queue, leaves the rest of the
\* store as it was, and leaves the queue empty.
C24_UnloadDataExact ==
    [][/\ Running("unload_chunks") =>
              /\ SubSeq(unload_data_queue', 1, Len(unload_data_queue)) = unload_data_queue
              /\ \A i \in (Len(unload_data_queue) + 1)..Len(unload_data_queue') :
                     /\ unload_data_queue'[i] \in chunks
                     /\ Contains(data_unload_queue, unload_data_queue'[i])
       /\ Running("unload_data") =>
              /\ chunks' = chunks \ Range(unload_data_queue)
              /\ unload_data_queue' = <<>>]_vars

\* unload_data has removed chunks from the store and kept others.
C24_Witness ==
    /\ last.sys = "unload_data"
    /\ last.n > 0
    /\ chunks # {}
    /\ unload_data_queue = <<>>

\* C25: World::unload_mesh removes and despawns the entity recorded for each
\* coordinate of world.unload_mesh_queue, passes over the coordinates with
\* none without failing or requeueing them, and leaves the other entities
\* alone; afterwards the queue is empty and no queued coordinate has an
\* entity recorded.
C25_UnloadMeshIgnoresMissing ==
    [][Running("world_unload_mesh") =>
           LET queued == Range(unload_mesh_queue)
               recorded == queued \cap DOMAIN chunk_entities
           IN  /\ ~panicked'
               /\ unload_mesh_queue' = <<>>
               /\ DOMAIN chunk_entities' = DOMAIN chunk_entities \ queued
               /\ \A c \in DOMAIN chunk_entities' : chunk_entities'[c] = chunk_entities[c]
               /\ entities' = entities \ {chunk_entities[c] : c \in recorded}]_vars

\* World::unload_mesh has passed over a queued coordinate with no entity
\* recorded, while an entity is alive.
C25_Witness ==
    /\ last.sys = "world_unload_mesh"
    /\ last.m > 0
    /\ entities # {}
    /\ ~panicked

\* C26: after detect_move no coordinate of the loader's data-unload queue is
\* in world.load_data_queue and none of its mesh-unload queue is in
\* world.load_mesh_queue.
C26_PendingLoadsCancelled ==
    [][Running("detect_move") =>
           /\ Range(data_unload_queue') \cap Range(load_data_queue') = {}
           /\ Range(mesh_unload_queue') \cap Range(load_mesh_queue') = {}]_vars

\* detect_move has removed pending loads from the store's queues, and other
\* loads are still pending.
C26_Witness ==
    /\ last.sys = "detect_move"
    /\ last.changed
    /\ last.m > 0
    /\ data_unload_queue # <<>>
    /\ load_data_queue # <<>>

is_sorted_by_distance(s, ref) ==
    \A i \in 1..(Len(s) - 1) :
        distance_squared(s[i], ref) <= distance_squared(s[i + 1], ref)

C28_NearestSpawnedFirst ==
    [][LET chunk_pos == observer_chunk_pos(translation)
       IN  /\ Running("start_data_tasks") =>
                  \A spawned \in data_tasks' \ data_tasks :
                      \A i \in 1..Len(load_data_queue') :
                          distance_squared(spawned, chunk_pos)
                              <= distance_squared(load_data_queue'[i], chunk_pos)
           /\ Running("start_mesh_tasks") =>
                  \A k \in (Len(mesh_tasks) + 1)..Len(mesh_tasks') :
                      \A i \in 1..Len(load_mesh_queue') :
                          distance_squared(mesh_tasks'[k], chunk_pos)
                              <= distance_squared(load_mesh_queue'[i], chunk_pos)]_vars

\* start_mesh_tasks has spawned a job and left a coordinate pending, after
\* start_data_tasks did the same, and the coordinates left are farther from
\* the observer than some coordinate taken.
C28_Witness ==
    /\ last.sys = "start_mesh_tasks"
    /\ ~panicked
    /\ load_mesh_queue # <<>>
    /\ load_data_queue # <<>>
    /\ Len(mesh_tasks) = MAX_MESH_TASKS
    /\ Cardinality(data_tasks) = MAX_DATA_TASKS
    /\ PendingCoords \cap Range(mesh_tasks) # {}
    /\ PendingCoords \cap data_tasks # {}

\* The <<row, bit>> positions a rectangle covers, and those set in a plane.
quad_cells(quad) ==
    {<<row, bit>> : row \in quad.x..(quad.x + quad.w - 1),
                    bit \in quad.y..(quad.y + quad.h - 1)}

plane_cells(data) ==
    {cell \in (DOMAIN data) \X (0..(U32_BITS - 1)) : cell[2] \in data[cell[1]]}

\* C29: for a plane of CHUNK_SIZE rows and lod_size = CHUNK_SIZE, the
\* rectangles of greedy_mesh_binary_plane do not overlap and cover exactly the
\* set bits of the plane.
C29_QuadsPartitionSetBits ==
    fn_pc = "done" =>
        /\ UNION {quad_cells(fn_out[i]) : i \in 1..Len(fn_out)} = plane_cells(fn_in.data)
        /\ \A i, j \in 1..Len(fn_out) :
               i # j => quad_cells(fn_out[i]) \cap quad_cells(fn_out[j]) = {}

\* The plane has been meshed into several rectangles, one of them more than
\* one row wide and more than one bit high, and it has unset bits.
C29_Witness ==
    /\ fn_pc = "done"
    /\ Len(fn_out) > 2
    /\ \E i \in 1..Len(fn_out) : fn_out[i].w > 1 /\ fn_out[i].h > 1
    /\ Cardinality(plane_cells(fn_in.data)) < CHUNK_SIZE * U32_BITS

\* The six voxels that share a face with a voxel, as offsets.
face_neighbours ==
    {<<0, -1, 0>>, <<0, 1, 0>>, <<-1, 0, 0>>, <<1, 0, 0>>, <<0, 0, -1>>, <<0, 0, 1>>}

\* Some solid voxel of the middle chunk has a voxel that is not solid on one
\* of its six sides, in the middle chunk or in a neighbouring chunk.
face_exposed(cfm) ==
    \E pos \in INNER \X INNER \X INNER :
        /\ is_solid(get_voxel_no_neighbour(cfm, pos))
        /\ \E n \in face_neighbours :
               ~is_solid(get_voxel(cfm, <<pos[1] + n[1], pos[2] + n[2], pos[3] + n[3]>>))

in_corner_order(a, b, c) == ((b - a) % 4) + ((c - b) % 4) + ((a - c) % 4) = 4

\* C31: for a vertex count that is a multiple of 4, generate_indices gives 6
\* indices a quad, all below the vertex count and among the quad's own 4
\* vertices, making two triangles that share a diagonal of the quad and both
\* go round in the corner order 0, 1, 2, 3.
C31_IndicesFormQuads ==
    fn_pc = "done" =>
        LET indices == fn_out
            quads == fn_in.vertex_count \div 4
            corner(q, k) == indices[6 * q + k] - 4 * q
        IN  /\ Len(indices) = 6 * quads
            /\ \A i \in 1..Len(indices) : indices[i] < fn_in.vertex_count
            /\ \A q \in 0..(quads - 1) :
                   LET first == {corner(q, k) : k \in 1..3}
                       second == {corner(q, k) : k \in 4..6}
                   IN  /\ first \cup second = 0..3
                       /\ first \cap second \in {{0, 2}, {1, 3}}
                       /\ in_corner_order(corner(q, 1), corner(q, 2), corner(q, 3))
                       /\ in_corner_order(corner(q, 4), corner(q, 5), corner(q, 6))

\* The voxel a direct lookup gives for the world position at offset p from
\* the origin of chunk c: the chunk is found by floored division.
store_lookup(store, c, p) ==
    Chunk_index_pos(
        store[<<c[1] + (p[1] \div CHUNK_SIZE), c[2] + (p[2] \div CHUNK_SIZE),
                c[3] + (p[3] \div CHUNK_SIZE)>>],
        <<p[1] % CHUNK_SIZE, p[2] % CHUNK_SIZE, p[3] % CHUNK_SIZE>>)

C34_ChunkCoordinateFloored ==
    fn_pc = "done" =>
        \A k \in 1..3 :
            fn_out[k] = (fn_in.translation[k] - CHUNK_SIZE \div 2) \div CHUNK_SIZE

\* C35: in every reachable state no coordinate is at once resident in the
\* store and in the global load queue, or resident and in flight, or in the
\* global load queue and in flight.
C35_DataLayerSetsDisjoint ==
    /\ chunks \cap Range(load_data_queue) = {}
    /\ chunks \cap data_tasks = {}
    /\ Range(load_data_queue) \cap data_tasks = {}

\* load_chunks has just dropped a coordinate that was busy, and each of the
\* three sets holds a coordinate.
C35_Witness ==
    /\ last.sys = "load_chunks"
    /\ last.m > 0
    /\ chunks # {}
    /\ load_data_queue # <<>>
    /\ data_tasks # {}

\* C36: with one loader and the systems in their listed order, every
\* coordinate start_mesh_tasks takes from the global mesh-load queue has all
\* 27 chunks of its neighbourhood resident at that moment, whatever moves the
\* observer made since load_mesh accepted it, so try_new never meets an
\* absent chunk.
C36_NeighbourhoodResidentAtSpawn ==
    [][ Running("start_mesh_tasks") =>
            /\ ~panicked'
            /\ \A c \in Range(load_mesh_queue) \ Range(load_mesh_queue') :
                   Neighbourhood(c) \subseteq chunks
      ]_vars

\* A job has been spawned for a coordinate although the observer has left
\* its chunk since detect_move ran: the move came between load_mesh and
\* start_mesh_tasks.
C36_Witness ==
    /\ last.sys = "start_mesh_tasks"
    /\ last.n > 0
    /\ observer_chunk_pos(translation) # prev_chunk_pos
    /\ ~panicked

\* The areas sampled around the chunk the observer is in.
mesh_area == sampled(mesh_sampling_offsets, observer_chunk_pos(translation))
data_area == sampled(data_sampling_offsets, observer_chunk_pos(translation))

\* C37: once the observer has stopped moving, every job coming to an end,
\* eventually every coordinate with a handle in World.chunk_entities lies in
\* the mesh area around the observer, and stays so.
C37_HandlesEventuallyInMeshArea ==
    <>[](DOMAIN chunk_entities \subseteq mesh_area)

C39_StoreEventuallyInDataArea ==
    <>[](chunks \subseteq data_area)

\* C40: with two loaders, detect_move handles each loader in every tick:
\* whenever the chunk coordinate of a loader has changed, the new coordinate
\* is recorded and the coordinates entering its data area are queued in
\* that run, whether or not the coordinate of the other loader has changed.
C40_EachLoaderDetected ==
    fn_pc = "done" =>
        \A i \in 1..Len(fn_in.loaders) :
            LET before == fn_in.loaders[i]
                after == fn_out.loaders[i]
                chunk_pos == observer_chunk_pos(before.translation)
            IN  chunk_pos_has_changed(chunk_pos, before.prev_chunk_pos) =>
                    /\ after.prev_chunk_pos = chunk_pos
                    /\ sampled(data_sampling_offsets, chunk_pos)
                            \ sampled(data_sampling_offsets, before.prev_chunk_pos)
                          \subseteq Range(after.data_load_queue)

====
